---- MODULE Spec2Model ----
(***************************************************************************)
(* Table-image placement of docling_convert.py, referenced image mode      *)
(* (convert_document, lines 185-320).  Text is modelled character by       *)
(* character: a string is a sequence of one-character strings, so that     *)
(* re.subn, str.split, str.strip and str.join act as they do in Python.    *)
(*                                                                         *)
(* Further specifications of the module:                                   *)
(*   SpecTemp   concurrent runs of convert_document and their temporary    *)
(*              directories (docling_convert.py, lines 154-166, 330-335)   *)
(*   SpecV5     the command line of docling_v5_convert.py                  *)
(*   SpecRapid  the command line of rapidocr_v5_convert.py                 *)
(*   SpecMains  the mains of docling_convert.py, rapidocr_v5_convert.py,   *)
(*              paddle_convert.py and docling_wrapper.py                   *)
(*   SpecMarker marker_convert.py                                          *)
(*   SpecRunner run_tests.py                                               *)
(*   SpecVenvs  the virtual environments of test_config.py                 *)
(*   SpecRelpaths  make_paths_relative of docling_wrapper.py               *)
(* Each specification moves the variables of its own script and leaves    *)
(* the others at rest.                                                     *)
(***************************************************************************)
EXTENDS Integers, Sequences, FiniteSets, TLC

VARIABLES
    pc,                \* position in convert_document
    tables,            \* result.document.tables with the body items after each
    output_basename,   \* Path(output_path).stem
    content,           \* the Markdown save_as_markdown wrote, as read back
    output,            \* the content of the output file
    tables_saved,      \* relative paths of the saved table images
    table_contexts,    \* table index -> marker (<<>> when there is none)
    new_content,       \* the text being rewritten
    inserted_indices,  \* indices of tables_saved already placed
    i,                 \* loop index of strategy 1
    lines,             \* the lines strategy 2 scanned
    placed_tier,       \* index of tables_saved -> strategy that placed it
    stdout,            \* the messages convert_document printed
    \* concurrent runs of convert_document
    run_pc,            \* run -> position in convert_document
    input_path,        \* run -> the input file it was called with
    temp_dir,          \* run -> the directory mkdtemp returned to it
    tmp_files,         \* temporary directory -> the files it holds
    converted,         \* run -> the file its converter read
    \* docling_v5_convert.py
    v5_pc,             \* position in main
    v5_argv,           \* the command line
    v5_args,           \* what parse_args returned
    v5_files,          \* the input file, the models, the model repository
    pipeline_options,  \* the PdfPipelineOptions of convert_document
    v5_written,        \* what the script wrote
    v5_exit,           \* exit status of the process
    \* rapidocr_v5_convert.py
    rapid_pc,          \* position in main
    rapid_argv,        \* the command line
    rapid_files,       \* the models directory, the input file, the repository
    rapid_stdout,      \* the lines printed
    rapid_did,         \* downloads made, engine created, output written
    rapid_exit,        \* exit status of the process
    \* one record for each further script; [pc |-> "rest"] when it is not run
    docling,           \* docling_convert.py: main and convert_document
    paddle,            \* paddle_convert.py: main
    wrapper,           \* docling_wrapper.py: main
    marker_convert,    \* marker_convert.py: main and convert_with_marker
    runner,            \* run_tests.py: main
    venvs,             \* test_config.py: the paths asked for
    relpaths           \* docling_wrapper.py: make_paths_relative

placement_vars ==
    <<pc, tables, output_basename, content, output, tables_saved,
      table_contexts, new_content, inserted_indices, i, lines, placed_tier,
      stdout>>
temp_vars == <<run_pc, input_path, temp_dir, tmp_files, converted>>
v5_vars == <<v5_pc, v5_argv, v5_args, v5_files, pipeline_options, v5_written,
             v5_exit>>
rapid_vars == <<rapid_pc, rapid_argv, rapid_files, rapid_stdout, rapid_did,
                rapid_exit>>

script_vars == <<docling, paddle, wrapper, marker_convert, runner, venvs, relpaths>>

vars == <<placement_vars, temp_vars, v5_vars, rapid_vars, script_vars>>

\* the variables each specification leaves at rest
outside_placement == <<temp_vars, v5_vars, rapid_vars, script_vars>>
outside_temp == <<placement_vars, v5_vars, rapid_vars, script_vars>>
outside_v5 == <<placement_vars, temp_vars, rapid_vars, script_vars>>
outside_rapid == <<placement_vars, temp_vars, v5_vars, script_vars>>
outside_scripts == <<placement_vars, temp_vars, v5_vars, rapid_vars>>
outside_docling ==
    <<outside_scripts, paddle, wrapper, marker_convert, runner, venvs, relpaths>>
outside_paddle ==
    <<outside_scripts, docling, wrapper, marker_convert, runner, venvs, relpaths>>
outside_wrapper ==
    <<outside_scripts, docling, paddle, marker_convert, runner, venvs, relpaths>>
outside_marker ==
    <<outside_scripts, docling, paddle, wrapper, runner, venvs, relpaths>>
outside_runner ==
    <<outside_scripts, docling, paddle, wrapper, marker_convert, venvs, relpaths>>
outside_venvs ==
    <<outside_scripts, docling, paddle, wrapper, marker_convert, runner, relpaths>>
outside_relpaths ==
    <<outside_scripts, docling, paddle, wrapper, marker_convert, runner, venvs>>

PlacementAtRest ==
    /\ pc = "rest" /\ tables = <<>> /\ output_basename = <<>>
    /\ content = <<>> /\ output = <<>> /\ tables_saved = <<>>
    /\ table_contexts = <<>> /\ new_content = <<>>
    /\ inserted_indices = {} /\ i = 0 /\ lines = <<>>
    /\ placed_tier = <<>> /\ stdout = <<>>

TempAtRest ==
    /\ run_pc = <<>> /\ input_path = <<>> /\ temp_dir = <<>>
    /\ tmp_files = <<>> /\ converted = <<>>

V5AtRest ==
    /\ v5_pc = "rest" /\ v5_argv = <<>> /\ v5_args = <<>>
    /\ v5_files = <<>> /\ pipeline_options = <<>> /\ v5_written = <<>>
    /\ v5_exit = -1

RapidAtRest ==
    /\ rapid_pc = "rest" /\ rapid_argv = <<>> /\ rapid_files = <<>>
    /\ rapid_stdout = <<>> /\ rapid_did = <<>> /\ rapid_exit = -1

\* a script that is not run
NotRun == [pc |-> "rest"]

\* the scripts with a record of their own are at rest, but the one named
ScriptsAtRest(run) ==
    /\ run = "docling" \/ docling = NotRun
    /\ run = "paddle" \/ paddle = NotRun
    /\ run = "wrapper" \/ wrapper = NotRun
    /\ run = "marker" \/ marker_convert = NotRun
    /\ run = "runner" \/ runner = NotRun
    /\ run = "venvs" \/ venvs = NotRun
    /\ run = "relpaths" \/ relpaths = NotRun

\* the scripts with variables of their own are at rest
VariablesAtRest ==
    PlacementAtRest /\ TempAtRest /\ V5AtRest /\ RapidAtRest

(* ------------------------------ bounds -------------------------------- *)
MaxLines == 3
MaxTables == 2

(* ---------------------------- characters ------------------------------ *)
NL == "\n"
BS == "\\"
Whitespace == {" ", NL}
AsciiLetters == {"T", "a", "b", "d", "e", "g", "l", "n", "o", "p", "q", "t", "x", "y"}

Min(a, b) == IF a < b THEN a ELSE b

Digit(d) ==
    CASE d = 0 -> "0" [] d = 1 -> "1" [] d = 2 -> "2" [] d = 3 -> "3"
      [] d = 4 -> "4" [] d = 5 -> "5" [] d = 6 -> "6" [] d = 7 -> "7"
      [] d = 8 -> "8" [] d = 9 -> "9"

RECURSIVE IntToStr(_)
IntToStr(n) ==
    IF n < 10 THEN <<Digit(n)>> ELSE IntToStr(n \div 10) \o <<Digit(n % 10)>>

(* ------------------------- string operations -------------------------- *)
MatchAt(s, p, k) ==
    /\ k + Len(p) - 1 <= Len(s)
    /\ \A j \in 1..Len(p) : s[k + j - 1] = p[j]

RECURSIVE FindFrom(_, _, _)
FindFrom(s, p, k) ==
    IF k + Len(p) - 1 > Len(s) THEN 0
    ELSE IF MatchAt(s, p, k) THEN k
    ELSE FindFrom(s, p, k + 1)

\* the leftmost match of an escaped literal in s: 0 when there is none
Find(s, p) == FindFrom(s, p, 1)

\* the pieces of s between newlines, from position k on; the piece being
\* read starts at position start
RECURSIVE SplitFrom(_, _, _)
SplitFrom(s, k, start) ==
    IF k > Len(s) THEN <<SubSeq(s, start, Len(s))>>
    ELSE IF s[k] = NL
    THEN <<SubSeq(s, start, k - 1)>> \o SplitFrom(s, k + 1, k + 1)
    ELSE SplitFrom(s, k + 1, start)

\* s.split('\n')
SplitNL(s) == SplitFrom(s, 1, 1)

RECURSIVE JoinNL(_)
JoinNL(ls) ==
    IF Len(ls) = 0 THEN <<>>
    ELSE IF Len(ls) = 1 THEN ls[1]
    ELSE ls[1] \o <<NL>> \o JoinNL(Tail(ls))

RECURSIVE LStrip(_)
LStrip(s) ==
    IF Len(s) > 0 /\ s[1] \in Whitespace THEN LStrip(Tail(s)) ELSE s

RECURSIVE RStrip(_)
RStrip(s) ==
    IF Len(s) > 0 /\ s[Len(s)] \in Whitespace
    THEN RStrip(SubSeq(s, 1, Len(s) - 1)) ELSE s

Strip(s) == LStrip(RStrip(s))

IsTableLine(line) ==
    LET t == Strip(line) IN Len(t) > 0 /\ t[1] = "|"

(* ----------------------- re.subn with a template ---------------------- *)
\* Characters that the escapes \a \b \f \n \r \t \v of a replacement
\* template stand for.
EscapeChar(c) ==
    CASE c = "a" -> "^G" [] c = "b" -> "^H" [] c = "f" -> "\f" [] c = "n" -> NL
      [] c = "r" -> "\r" [] c = "t" -> "\t" [] c = "v" -> "^K"

EscapeLetters == {"a", "b", "f", "n", "r", "t", "v"}
GroupDigits == {"1", "2", "3", "4", "5", "6", "7", "8", "9"}

\* The replacement string of re.subn is a template: a backslash followed by
\* the digit 1 stands for group 1, one followed by an escape letter for a
\* control character, one followed by any other ASCII letter (or by a digit
\* naming a group the pattern does not have, or by nothing) raises re.error,
\* and any other pair is kept as it is.  The pattern has the single group 1.
RECURSIVE ExpandFrom(_, _, _, _)
ExpandFrom(tpl, k, group, acc) ==
    IF k > Len(tpl) THEN [ok |-> TRUE, text |-> acc]
    ELSE IF tpl[k] # BS THEN ExpandFrom(tpl, k + 1, group, Append(acc, tpl[k]))
    ELSE IF k = Len(tpl) THEN [ok |-> FALSE, text |-> <<>>]
    ELSE LET c == tpl[k + 1]
         IN  IF c = "1" THEN ExpandFrom(tpl, k + 2, group, acc \o group)
             ELSE IF c \in GroupDigits THEN [ok |-> FALSE, text |-> <<>>]
             ELSE IF c \in EscapeLetters
             THEN ExpandFrom(tpl, k + 2, group, Append(acc, EscapeChar(c)))
             ELSE IF c \in AsciiLetters THEN [ok |-> FALSE, text |-> <<>>]
             ELSE IF c = BS THEN ExpandFrom(tpl, k + 2, group, Append(acc, BS))
             ELSE ExpandFrom(tpl, k + 2, group, acc \o <<BS, c>>)

ExpandTemplate(tpl, group) == ExpandFrom(tpl, 1, group, <<>>)

\* re.subn(f"({re.escape(marker)})", replacement, s, count=1): the template
\* is compiled before the search, the leftmost occurrence is replaced.
Subn(marker, replacement, s) ==
    LET e == ExpandTemplate(replacement, marker)
        k == Find(s, marker)
    IN  IF ~e.ok THEN [ok |-> FALSE, text |-> s, count |-> 0]
        ELSE IF k = 0 THEN [ok |-> TRUE, text |-> s, count |-> 0]
        ELSE [ok |-> TRUE, count |-> 1,
              text |-> SubSeq(s, 1, k - 1) \o e.text
                       \o SubSeq(s, k + Len(marker), Len(s))]

(* ------------------------- image references --------------------------- *)
\* f"{output_basename}/table_{i}.png"
ImgName(base, k) ==
    base \o <<"/", "t", "a", "b", "l", "e", "_">> \o IntToStr(k)
         \o <<".", "p", "n", "g">>

\* f"![Table {n}]({img_name})"
ImageRef(n, img_name) ==
    <<"!", "[", "T", "a", "b", "l", "e", " ">> \o IntToStr(n)
        \o <<"]", "(">> \o img_name \o <<")">>

\* f"![Table {i + 1}]({img_name})\n\n\\1"
Replacement(k, img_name) == ImageRef(k + 1, img_name) \o <<NL, NL, BS, "1">>

\* "\n\n## Table Images\n"
TrailerHeading == <<"#", "#", " ", "T", "a", "b", "l", "e", " ",
                    "I", "m", "a", "g", "e", "s">>
Trailer == <<NL, NL>> \o TrailerHeading \o <<NL>>

(* ------------------------------ inputs -------------------------------- *)
LineVocab ==
    { <<>>,
      <<"x", "y">>,
      <<"#", " ", "x", "y">>,
      <<"|", "x", "y", "|">> }

Docs == UNION { [1..n -> LineVocab] : n \in 1..MaxLines }

\* text of the body's text items
Texts == { <<" ">>, <<"x", "y">>, <<"1">> }

\* the text items that follow a table in the body, before the next table
Follows == { <<>> } \cup { <<t>> : t \in Texts }

\* result.document.tables.  The text items after a table without an image
\* are left out: its own marker is never read (table_refs_map holds only
\* tables with an image), and an earlier table that looks ahead past it
\* reaches the same markers through the tables that follow.
TableLists ==
    UNION { { t \in [1..n -> [image : BOOLEAN, follow : Follows]] :
                \A k \in 1..n : ~t[k].image => t[k].follow = <<>> }
            : n \in 0..MaxTables }

Basenames == { <<"o">>, <<"o", BS, "d">> }

(* ---------------- the body of the document and the markers ------------ *)
RECURSIVE BodyFrom(_, _)
BodyFrom(tbls, k) ==
    IF k > Len(tbls) THEN <<>>
    ELSE <<[kind |-> "table", ref |-> k - 1, text |-> <<>>]>>
         \o [j \in 1..Len(tbls[k].follow) |->
                [kind |-> "text", ref |-> 0, text |-> tbls[k].follow[j]]]
         \o BodyFrom(tbls, k + 1)

\* list(result.document.body.children)
BodyChildren(tbls) == BodyFrom(tbls, 1)

MarkerLen == 30
LookAhead == 5

\* text_item.text[:30].strip()
MarkerOf(text) == Strip(SubSeq(text, 1, Min(MarkerLen, Len(text))))

\* the marker of the table item at position p of the body: the first of the
\* next LookAhead - 1 items that is a text item with a non-empty marker
ContextAt(body, p) ==
    LET cand == { q \in (p + 1)..Min(p + LookAhead - 1, Len(body)) :
                    /\ body[q].kind = "text"
                    /\ Len(body[q].text) > 0
                    /\ Len(MarkerOf(body[q].text)) > 0 }
    IN  IF cand = {} THEN <<>>
        ELSE MarkerOf(body[CHOOSE q \in cand : \A r \in cand : q <= r].text)

\* table_contexts: table index -> marker, <<>> for a table without one
TableContexts(tbls) ==
    LET body == BodyChildren(tbls)
    IN  [k \in 0..(Len(tbls) - 1) |->
            ContextAt(body, CHOOSE p \in 1..Len(body) :
                                body[p].kind = "table" /\ body[p].ref = k)]

\* a saving loop without the "table.image is not None" test
RECURSIVE SavedFromAll(_, _, _)
SavedFromAll(tbls, base, k) ==
    IF k > Len(tbls) THEN <<>>
    ELSE <<ImgName(base, k - 1)>> \o SavedFromAll(tbls, base, k + 1)

TablesSavedAll(tbls, base) == SavedFromAll(tbls, base, 1)

RECURSIVE SavedFrom(_, _, _)
SavedFrom(tbls, base, k) ==
    IF k > Len(tbls) THEN <<>>
    ELSE (IF tbls[k].image THEN <<ImgName(base, k - 1)>> ELSE <<>>)
         \o SavedFrom(tbls, base, k + 1)

\* tables_saved: one path per table that has an image, in table order
TablesSaved(tbls, base) == SavedFrom(tbls, base, 1)

\* table_refs_map.get(k): the table whose marker strategy 1 uses for
\* tables_saved[k]; -1 stands for None
TableRefsMapGet(tbls, saved, k) ==
    IF k < Len(tbls) /\ tbls[k + 1].image /\ k < Len(saved) THEN k ELSE -1

(* ------------------ strategy 2: markdown table blocks ----------------- *)
\* a scan that takes the next index without looking at inserted_indices
NextAvailableNoSkip(k, saved, inserted) == k

\* while table_index < len(tables_saved) and table_index in inserted_indices
RECURSIVE NextAvailable(_, _, _)
NextAvailable(k, saved, inserted) ==
    IF k < Len(saved) /\ k \in inserted
    THEN NextAvailable(k + 1, saved, inserted) ELSE k

\* One pass of "for line in lines" from line n on.  st holds new_lines,
\* table_index, in_table, inserted (inserted_indices) and by2 (the indices
\* this strategy added).
RECURSIVE ScanLines(_, _, _, _)
ScanLines(ls, n, saved, st) ==
    IF n > Len(ls) THEN st
    ELSE
      LET appended == Append(st.new_lines, ls[n])
          k == NextAvailable(st.table_index, saved, st.inserted)
      IN  IF IsTableLine(ls[n])
          THEN ScanLines(ls, n + 1, saved,
                         [st EXCEPT !.new_lines = appended, !.in_table = TRUE])
          ELSE IF st.in_table
          THEN IF k < Len(saved)
               THEN ScanLines(ls, n + 1, saved,
                        [new_lines |-> Append(appended,
                                         <<NL>> \o ImageRef(k + 1, saved[k + 1])),
                         table_index |-> k + 1,
                         in_table |-> FALSE,
                         inserted |-> st.inserted \cup {k},
                         by2 |-> st.by2 \cup {k}])
               ELSE ScanLines(ls, n + 1, saved,
                        [st EXCEPT !.new_lines = appended, !.table_index = k,
                                   !.in_table = FALSE])
          ELSE ScanLines(ls, n + 1, saved, [st EXCEPT !.new_lines = appended])

\* a scan that forgets the table block open at the end of the document
EndOfDocTableSkipped(saved, st) == st

\* "if in_table:  # End of doc table"
EndOfDocTable(saved, st) ==
    LET k == NextAvailable(st.table_index, saved, st.inserted)
    IN  IF st.in_table /\ k < Len(saved)
        THEN [st EXCEPT !.new_lines =
                            Append(@, <<NL>> \o ImageRef(k + 1, saved[k + 1])),
                        !.table_index = k,
                        !.inserted = @ \cup {k},
                        !.by2 = @ \cup {k}]
        ELSE st

Strategy2Result(ls, saved, inserted) ==
    EndOfDocTable(saved,
        ScanLines(ls, 1, saved,
                  [new_lines |-> <<>>, table_index |-> 0, in_table |-> FALSE,
                   inserted |-> inserted, by2 |-> {}]))

(* -------------------- strategy 3: append at the end ------------------- *)
\* [i for i in range(len(tables_saved)) if i not in inserted_indices]
RemainingIndices(saved, inserted) ==
    { k \in 0..(Len(saved) - 1) : k \notin inserted }

RECURSIVE AppendRemaining(_, _, _)
AppendRemaining(k, saved, remaining) ==
    IF k >= Len(saved) THEN <<>>
    ELSE (IF k \in remaining
          THEN <<NL>> \o ImageRef(k + 1, saved[k + 1]) ELSE <<>>)
         \o AppendRemaining(k + 1, saved, remaining)

\* a trailer written whether or not an image remains
Strategy3TextAlways(text, saved, inserted) ==
    text \o Trailer
         \o AppendRemaining(0, saved, RemainingIndices(saved, inserted))

Strategy3Text(text, saved, inserted) ==
    LET remaining == RemainingIndices(saved, inserted)
    IN  IF remaining # {}
        THEN text \o Trailer \o AppendRemaining(0, saved, remaining)
        ELSE text

(* ------------------------- printed messages --------------------------- *)
\* print(f"  Images saved alongside markdown file")
ImagesSavedMsg == <<"Images saved alongside markdown file">>

\* print(f"  Saved {len(tables_saved)} table images to {images_folder}")
SavedMsg(n) == <<"Saved table images", n>>

\* print(f"  Inserted {len(tables_saved)} table image links")
InsertedMsg(n) == <<"Inserted table image links", n>>

\* print(f"Conversion complete: {output_path}")
CompleteMsg == <<"Conversion complete">>

(* ------------------------------ actions ------------------------------- *)
Init ==
    /\ pc = "start"
    /\ tables \in TableLists
    /\ output_basename \in Basenames
    /\ content \in { JoinNL(d) : d \in Docs }
    /\ output = <<>>
    /\ tables_saved = <<>>
    /\ table_contexts = <<>>
    /\ new_content = <<>>
    /\ inserted_indices = {}
    /\ i = 0
    /\ lines = <<>>
    /\ placed_tier = <<>>
    /\ stdout = <<>>
    /\ TempAtRest /\ V5AtRest /\ RapidAtRest /\ ScriptsAtRest("")

\* save_as_markdown writes the file, the table images are saved, and when
\* there are any the file is read back and the markers are collected
Export ==
    /\ pc = "start"
    /\ output' = content
    /\ tables_saved' = TablesSaved(tables, output_basename)
    /\ IF Len(tables_saved') > 0
       THEN /\ table_contexts' = TableContexts(tables)
            /\ new_content' = content
            /\ lines' = SplitNL(content)
            /\ placed_tier' = [k \in 0..(Len(tables_saved') - 1) |-> 0]
            /\ stdout' = <<ImagesSavedMsg, SavedMsg(Len(tables_saved'))>>
            /\ pc' = "strategy1"
       ELSE /\ pc' = "done"
            /\ stdout' = <<ImagesSavedMsg, CompleteMsg>>
            /\ UNCHANGED <<table_contexts, new_content, lines, placed_tier>>
    /\ UNCHANGED <<tables, output_basename, content, inserted_indices, i>>
    /\ UNCHANGED outside_placement

\* one iteration of "for i, img_name in enumerate(tables_saved)"
Strategy1 ==
    /\ pc = "strategy1"
    /\ i < Len(tables_saved)
    /\ LET img_name == tables_saved[i + 1]
           table_ref == TableRefsMapGet(tables, tables_saved, i)
           marker == IF table_ref = -1 THEN <<>> ELSE table_contexts[table_ref]
           r == Subn(marker, Replacement(i, img_name), new_content)
       IN  IF Len(marker) = 0
           THEN /\ i' = i + 1
                /\ UNCHANGED <<pc, new_content, inserted_indices, placed_tier>>
           ELSE IF ~r.ok
           THEN /\ pc' = "failed"
                /\ UNCHANGED <<i, new_content, inserted_indices, placed_tier>>
           ELSE /\ i' = i + 1
                /\ new_content' = r.text
                /\ inserted_indices' =
                       IF r.count > 0 THEN inserted_indices \cup {i}
                       ELSE inserted_indices
                /\ placed_tier' =
                       IF r.count > 0 THEN [placed_tier EXCEPT ![i] = 1]
                       ELSE placed_tier
                /\ pc' = pc
    /\ UNCHANGED <<tables, output_basename, content, output, tables_saved,
                   table_contexts, lines, stdout>>
    /\ UNCHANGED outside_placement

\* "if len(inserted_indices) < len(tables_saved)": the scan of the lines
Strategy2 ==
    /\ pc = "strategy1"
    /\ i = Len(tables_saved)
    /\ IF Cardinality(inserted_indices) < Len(tables_saved)
       THEN LET ls == SplitNL(new_content)
                st == Strategy2Result(ls, tables_saved, inserted_indices)
            IN  /\ lines' = ls
                /\ new_content' = JoinNL(st.new_lines)
                /\ inserted_indices' = st.inserted
                /\ placed_tier' = [k \in DOMAIN placed_tier |->
                                     IF k \in st.by2 THEN 2 ELSE placed_tier[k]]
       ELSE UNCHANGED <<lines, new_content, inserted_indices, placed_tier>>
    /\ pc' = "strategy3"
    /\ UNCHANGED <<tables, output_basename, content, output, tables_saved,
                   table_contexts, i, stdout>>
    /\ UNCHANGED outside_placement

\* the remaining images are appended and the file is written
Strategy3 ==
    /\ pc = "strategy3"
    /\ LET remaining == RemainingIndices(tables_saved, inserted_indices)
       IN  /\ new_content' = Strategy3Text(new_content, tables_saved, inserted_indices)
           /\ placed_tier' = [k \in DOMAIN placed_tier |->
                                IF k \in remaining THEN 3 ELSE placed_tier[k]]
    /\ output' = new_content'
    /\ stdout' = stdout \o <<InsertedMsg(Len(tables_saved)), CompleteMsg>>
    /\ pc' = "done"
    /\ UNCHANGED <<tables, output_basename, content, tables_saved,
                   table_contexts, inserted_indices, i, lines>>
    /\ UNCHANGED outside_placement

Next == Export \/ Strategy1 \/ Strategy2 \/ Strategy3

Spec == Init /\ [][Next]_vars

(* ========== concurrent runs and their temporary directories =========== *)
MaxUuid == 2
MaxSuffix == 2

\* two runs of convert_document, each in a process of its own
Runs == {1, 2}

\* uuid.uuid4().hex[:8], and the random characters mkdtemp puts after the
\* prefix
Uuids == 1..MaxUuid
Suffixes == 1..MaxSuffix
DirNames == Uuids \X Suffixes

\* input files: two of the same name in different folders, and another one
InputPaths ==
    { [folder |-> "a", name |-> "in.pdf"],
      [folder |-> "b", name |-> "in.pdf"],
      [folder |-> "a", name |-> "scan.pdf"] }

NoDir == <<>>
NoData == [name |-> "", data |-> [folder |-> "", name |-> ""]]

\* what the converter of a run read: nothing yet, a file, or no file there
NotConverted == [status |-> "none", dir |-> NoDir, file |-> NoData]
FileMissing == [status |-> "missing", dir |-> NoDir, file |-> NoData]
FileRead(d, f) == [status |-> "read", dir |-> d, file |-> f]

\* the temporary folder before the runs start: empty, or holding a directory
\* some earlier process left behind
StaleDirs == { <<>> } \cup { [d \in {n} |-> {}] : n \in DirNames }

\* a directory made under the prefix whether or not it exists already, as
\* "if not os.path.exists(d): os.makedirs(d)" makes it
AnyNames(fs, u) == { <<u, s>> : s \in Suffixes }

\* the names tempfile.mkdtemp(prefix=...) can return: os.mkdir of a name
\* that exists fails and mkdtemp tries another one
FreshNames(fs, u) ==
    { <<u, s>> : s \in { t \in Suffixes : <<u, t>> \notin DOMAIN fs } }

\* os.mkdir(d) on the temporary folder
MakeDir(fs, d) ==
    [e \in DOMAIN fs \cup {d} |-> IF e \in DOMAIN fs THEN fs[e] ELSE {}]

\* shutil.rmtree(d), its errors ignored
RemoveTree(fs, d) == [e \in DOMAIN fs \ {d} |-> fs[e]]

\* the copy shutil.copy2(input_path, os.path.join(temp_dir, basename)) makes
CopyOf(path) == [name |-> path.name, data |-> path]

\* temp_dir = tempfile.mkdtemp(prefix=f"docling_v5_{uuid.uuid4().hex[:8]}_")
Mkdtemp ==
    \E r \in Runs :
        /\ run_pc[r] = "mkdtemp"
        /\ \E u \in Uuids :
              IF FreshNames(tmp_files, u) = {}
              THEN /\ run_pc' = [run_pc EXCEPT ![r] = "raised"]
                   /\ UNCHANGED <<temp_dir, tmp_files>>
              ELSE \E d \in FreshNames(tmp_files, u) :
                      /\ tmp_files' = MakeDir(tmp_files, d)
                      /\ temp_dir' = [temp_dir EXCEPT ![r] = d]
                      /\ run_pc' = [run_pc EXCEPT ![r] = "copy"]
        /\ UNCHANGED <<input_path, converted>>
        /\ UNCHANGED outside_temp

\* shutil.copy2(input_path, temp_input_path); an exception goes to "finally"
CopyInput ==
    \E r \in Runs :
        /\ run_pc[r] = "copy"
        /\ \E readable \in BOOLEAN :
              IF readable /\ temp_dir[r] \in DOMAIN tmp_files
              THEN /\ tmp_files' =
                        [tmp_files EXCEPT ![temp_dir[r]] =
                            { f \in @ : f.name # input_path[r].name }
                                \cup { CopyOf(input_path[r]) }]
                   /\ run_pc' = [run_pc EXCEPT ![r] = "convert"]
              ELSE /\ run_pc' = [run_pc EXCEPT ![r] = "finally"]
                   /\ UNCHANGED tmp_files
        /\ UNCHANGED <<input_path, temp_dir, converted>>
        /\ UNCHANGED outside_temp

\* result = converter.convert(temp_input_path) and the export; whether it
\* returns or raises, "finally" follows
Convert ==
    \E r \in Runs :
        /\ run_pc[r] = "convert"
        /\ LET d == temp_dir[r]
               found == IF d \in DOMAIN tmp_files
                        THEN { f \in tmp_files[d] : f.name = input_path[r].name }
                        ELSE {}
           IN  converted' =
                   [converted EXCEPT ![r] =
                       IF found = {} THEN FileMissing
                       ELSE FileRead(d, CHOOSE f \in found : TRUE)]
        /\ run_pc' = [run_pc EXCEPT ![r] = "finally"]
        /\ UNCHANGED <<input_path, temp_dir, tmp_files>>
        /\ UNCHANGED outside_temp

\* finally: shutil.rmtree(temp_dir)
Cleanup ==
    \E r \in Runs :
        /\ run_pc[r] = "finally"
        /\ tmp_files' = RemoveTree(tmp_files, temp_dir[r])
        /\ run_pc' = [run_pc EXCEPT ![r] = "done"]
        /\ UNCHANGED <<input_path, temp_dir, converted>>
        /\ UNCHANGED outside_temp

InitTemp ==
    /\ run_pc = [r \in Runs |-> "mkdtemp"]
    /\ input_path \in [Runs -> InputPaths]
    /\ temp_dir = [r \in Runs |-> NoDir]
    /\ tmp_files \in StaleDirs
    /\ converted = [r \in Runs |-> NotConverted]
    /\ PlacementAtRest /\ V5AtRest /\ RapidAtRest /\ ScriptsAtRest("")

NextTemp == Mkdtemp \/ CopyInput \/ Convert \/ Cleanup

SpecTemp == InitTemp /\ [][NextTemp]_vars

(* ================ docling_v5_convert.py: the command line ============= *)
\* choices=['placeholder', 'embedded', 'referenced']
ImageModes == {"placeholder", "embedded", "referenced"}

\* what the command line holds: "--no-ocr" or not, "--image-mode M" or not
\* ("absent"), "--force-ocr", "--gpu", "--download-models"; the two file
\* arguments are always there
V5CommandLines ==
    [no_ocr : BOOLEAN, image_mode : ImageModes \cup {"absent"},
     force_ocr : BOOLEAN, gpu : BOOLEAN, download_models : BOOLEAN]

\* the input file exists, the models are installed, the repository answers
V5FileStates == [input : BOOLEAN, models : BOOLEAN, hub : BOOLEAN]

\* the options main adds to its parser: --gpu, --force-ocr, --image-mode,
\* --download-models.  parse_args exits with status 2 on any other option.
V5Recognized(argv) == ~argv.no_ocr

\* the namespace parse_args returns; image_mode defaults to 'placeholder'
V5ParseArgs(argv) ==
    [image_mode |-> IF argv.image_mode = "absent" THEN "placeholder"
                    ELSE argv.image_mode,
     force_ocr |-> argv.force_ocr,
     gpu |-> argv.gpu,
     download_models |-> argv.download_models]

NoArgs == [image_mode |-> "", force_ocr |-> FALSE, gpu |-> FALSE,
           download_models |-> FALSE]
NoOptions == [configured |-> FALSE, do_ocr |-> FALSE, ocr_options |-> "none",
              force_full_page_ocr |-> FALSE,
              generate_picture_images |-> FALSE]
NothingWritten == [markdown |-> "none", images_dir |-> FALSE]

\* download_models_if_needed(): TRUE when the models are there afterwards
V5ModelsReady(files) == files.models \/ files.hub

\* args = parser.parse_args()
V5Parse ==
    /\ v5_pc = "parse_args"
    /\ IF V5Recognized(v5_argv)
       THEN /\ v5_args' = V5ParseArgs(v5_argv)
            /\ v5_pc' = "main"
            /\ UNCHANGED v5_exit
       ELSE /\ v5_exit' = 2
            /\ v5_pc' = "exit"
            /\ UNCHANGED v5_args
    /\ UNCHANGED <<v5_argv, v5_files, pipeline_options, v5_written>>
    /\ UNCHANGED outside_v5

\* "if args.download_models:" download only, then exit
V5DownloadModels ==
    /\ v5_pc = "main"
    /\ v5_args.download_models
    /\ v5_files' = [v5_files EXCEPT !.models = V5ModelsReady(v5_files)]
    /\ v5_exit' = IF V5ModelsReady(v5_files) THEN 0 ELSE 1
    /\ v5_pc' = "exit"
    /\ UNCHANGED <<v5_argv, v5_args, pipeline_options, v5_written>>
    /\ UNCHANGED outside_v5

\* "if not os.path.exists(args.input_file):" exit 1
V5InputMissing ==
    /\ v5_pc = "main"
    /\ ~v5_args.download_models
    /\ ~v5_files.input
    /\ v5_exit' = 1
    /\ v5_pc' = "exit"
    /\ UNCHANGED <<v5_argv, v5_args, v5_files, pipeline_options, v5_written>>
    /\ UNCHANGED outside_v5

\* download_models_if_needed() before the conversion; an exception exits 1
V5EnsureModels ==
    /\ v5_pc = "main"
    /\ ~v5_args.download_models
    /\ v5_files.input
    /\ v5_files' = [v5_files EXCEPT !.models = V5ModelsReady(v5_files)]
    /\ IF V5ModelsReady(v5_files)
       THEN v5_pc' = "configure" /\ UNCHANGED v5_exit
       ELSE v5_pc' = "exit" /\ v5_exit' = 1
    /\ UNCHANGED <<v5_argv, v5_args, pipeline_options, v5_written>>
    /\ UNCHANGED outside_v5

\* convert_document: rapidocr_options and pipeline_options
V5Configure ==
    /\ v5_pc = "configure"
    /\ pipeline_options' =
          [configured |-> TRUE,
           do_ocr |-> TRUE,
           ocr_options |-> "rapidocr_ppocrv5",
           force_full_page_ocr |-> v5_args.force_ocr,
           generate_picture_images |-> (v5_args.image_mode = "embedded")]
    /\ v5_pc' = "convert"
    /\ UNCHANGED <<v5_argv, v5_args, v5_files, v5_written, v5_exit>>
    /\ UNCHANGED outside_v5

\* converter.convert(temp_input_path); an exception exits 1
V5Convert ==
    /\ v5_pc = "convert"
    /\ \E converts \in BOOLEAN :
          IF converts
          THEN v5_pc' = "export" /\ UNCHANGED v5_exit
          ELSE v5_pc' = "exit" /\ v5_exit' = 1
    /\ UNCHANGED <<v5_argv, v5_args, v5_files, pipeline_options, v5_written>>
    /\ UNCHANGED outside_v5

\* export_to_markdown (EMBEDDED for embedded mode, the default otherwise) and
\* the write of the output file; main returns and the process exits 0
V5Export ==
    /\ v5_pc = "export"
    /\ v5_written' =
          [markdown |-> IF v5_args.image_mode = "embedded" THEN "embedded"
                        ELSE "placeholder",
           images_dir |-> FALSE]
    /\ v5_exit' = 0
    /\ v5_pc' = "exit"
    /\ UNCHANGED <<v5_argv, v5_args, v5_files, pipeline_options>>
    /\ UNCHANGED outside_v5

InitV5 ==
    /\ v5_pc = "parse_args"
    /\ v5_argv \in V5CommandLines
    /\ v5_args = NoArgs
    /\ v5_files \in V5FileStates
    /\ pipeline_options = NoOptions
    /\ v5_written = NothingWritten
    /\ v5_exit = -1
    /\ PlacementAtRest /\ TempAtRest /\ RapidAtRest /\ ScriptsAtRest("")

NextV5 ==
    \/ V5Parse \/ V5DownloadModels \/ V5InputMissing \/ V5EnsureModels
    \/ V5Configure \/ V5Convert \/ V5Export

SpecV5 == InitV5 /\ [][NextV5]_vars

(* =============== rapidocr_v5_convert.py: the command line ============= *)
\* the options and the two optional file arguments (nargs='?'): an output
\* file is given only after an input file
RapidCommandLines ==
    { a \in [check_models : BOOLEAN, download_models : BOOLEAN,
             input_file : BOOLEAN, output_file : BOOLEAN] :
        a.output_file => a.input_file }

\* what the repository can be asked for: the two ONNX models and the YML
\* configuration of the recognition model
HubFiles == {"det", "rec", "yml"}

\* the YML configuration: with a character dictionary, without one, or not
\* a mapping at all
YmlKinds == {"dict", "nodict", "broken"}

\* the files of the models directory (detection model, recognition model,
\* character keys), the input file, the files the repository serves and
\* the YML it holds
RapidFileStates ==
    [det : BOOLEAN, rec : BOOLEAN, keys : BOOLEAN, input : BOOLEAN,
     hub : SUBSET HubFiles, yml : YmlKinds]

NothingDone ==
    [downloaded |-> FALSE, engine |-> FALSE, output |-> FALSE,
     fetched |-> <<>>]

\* a download in progress: no exception so far, the files as they are now,
\* and the calls of hf_hub_download made, each with the file it was for and
\* whether that file was there when it was called
DownloadStart(files) == [ok |-> TRUE, files |-> files, fetched |-> <<>>]

\* hf_hub_download(repo_id, filename, local_dir) for the file target; it
\* raises when the repository does not serve the file
HfHubDownload(st, name, target) ==
    LET asked == [st EXCEPT !.fetched =
                     Append(@, [file |-> name, present |-> st.files[target]])]
    IN  IF name \in st.files.hub THEN asked ELSE [asked EXCEPT !.ok = FALSE]

\* one turn of "for name, filename in MODEL_FILES.items()": a file that
\* exists is passed over, a missing one is downloaded
FetchModel(st, name) ==
    IF ~st.ok \/ st.files[name] THEN st
    ELSE LET d == HfHubDownload(st, name, name)
         IN  IF d.ok THEN [d EXCEPT !.files[name] = TRUE] ELSE d

\* extract_keys_from_yml: ValueError when there is no character_dict, an
\* exception when the YML is no mapping
ExtractKeysFromYml(st) ==
    IF st.files.yml = "dict"
    THEN [st EXCEPT !.files.keys = TRUE]
    ELSE [st EXCEPT !.ok = FALSE]

\* a check that looks at the two ONNX models only
CheckModelsExistNoKeys(files) == files.det /\ files.rec

\* check_models_exist()
CheckModelsExist(files) == files.det /\ files.rec /\ files.keys

\* "if not os.path.exists(keys_path):" download the YML and extract the keys
FetchKeys(st) ==
    IF ~st.ok \/ st.files.keys THEN st
    ELSE LET d == HfHubDownload(st, "yml", "keys")
         IN  IF d.ok THEN ExtractKeysFromYml(d) ELSE d

\* download_models(): the two models, then the keys; the first exception
\* ends it
DownloadModels(files) ==
    FetchKeys(FetchModel(FetchModel(DownloadStart(files), "det"), "rec"))

\* "if args.check_models:"
RapidCheckModels ==
    /\ rapid_pc = "main"
    /\ rapid_argv.check_models
    /\ IF CheckModelsExist(rapid_files)
       THEN /\ rapid_stdout' = Append(rapid_stdout, "MODELS_INSTALLED")
            /\ rapid_exit' = 0
       ELSE /\ rapid_stdout' = Append(rapid_stdout, "MODELS_NOT_INSTALLED")
            /\ rapid_exit' = 1
    /\ rapid_pc' = "exit"
    /\ UNCHANGED <<rapid_argv, rapid_files, rapid_did>>
    /\ UNCHANGED outside_rapid

\* "if args.download_models:"
RapidDownloadModels ==
    /\ rapid_pc = "main"
    /\ ~rapid_argv.check_models
    /\ rapid_argv.download_models
    /\ LET d == DownloadModels(rapid_files)
       IN  /\ rapid_files' = d.files
           /\ rapid_did' = [rapid_did EXCEPT !.downloaded = d.fetched # <<>>,
                                            !.fetched = d.fetched]
           /\ rapid_stdout' =
                 rapid_stdout \o <<"Downloading PP-OCRv5 models...",
                                   IF d.ok THEN "Models downloaded successfully."
                                   ELSE "Error downloading models">>
           /\ rapid_exit' = IF d.ok THEN 0 ELSE 1
    /\ rapid_pc' = "exit"
    /\ UNCHANGED rapid_argv
    /\ UNCHANGED outside_rapid

\* "if not args.input_file or not args.output_file:" print_help, exit 1
RapidUsage ==
    /\ rapid_pc = "main"
    /\ ~rapid_argv.check_models
    /\ ~rapid_argv.download_models
    /\ ~rapid_argv.input_file \/ ~rapid_argv.output_file
    /\ rapid_stdout' = Append(rapid_stdout, "usage")
    /\ rapid_exit' = 1
    /\ rapid_pc' = "exit"
    /\ UNCHANGED <<rapid_argv, rapid_files, rapid_did>>
    /\ UNCHANGED outside_rapid

\* "if not os.path.exists(input_path):" exit 1
RapidInputMissing ==
    /\ rapid_pc = "main"
    /\ ~rapid_argv.check_models
    /\ ~rapid_argv.download_models
    /\ rapid_argv.input_file /\ rapid_argv.output_file
    /\ ~rapid_files.input
    /\ rapid_stdout' = Append(rapid_stdout, "Error: Input file not found")
    /\ rapid_exit' = 1
    /\ rapid_pc' = "exit"
    /\ UNCHANGED <<rapid_argv, rapid_files, rapid_did>>
    /\ UNCHANGED outside_rapid

\* "if not check_models_exist(): download_models(...)"; an exception exits 1
RapidEnsureModels ==
    /\ rapid_pc = "main"
    /\ ~rapid_argv.check_models
    /\ ~rapid_argv.download_models
    /\ rapid_argv.input_file /\ rapid_argv.output_file
    /\ rapid_files.input
    /\ IF CheckModelsExist(rapid_files)
       THEN /\ rapid_pc' = "create_engine"
            /\ UNCHANGED <<rapid_files, rapid_did, rapid_stdout, rapid_exit>>
       ELSE LET d == DownloadModels(rapid_files)
            IN  /\ rapid_files' = d.files
                /\ rapid_did' = [rapid_did EXCEPT !.downloaded = d.fetched # <<>>,
                                            !.fetched = d.fetched]
                /\ IF d.ok
                   THEN /\ rapid_stdout' =
                             Append(rapid_stdout, "Models not found. Downloading...")
                        /\ rapid_pc' = "create_engine"
                        /\ UNCHANGED rapid_exit
                   ELSE /\ rapid_stdout' =
                             rapid_stdout \o <<"Models not found. Downloading...",
                                               "Error">>
                        /\ rapid_pc' = "exit"
                        /\ rapid_exit' = 1
    /\ UNCHANGED rapid_argv
    /\ UNCHANGED outside_rapid

\* engine = create_rapidocr_engine(): FileNotFoundError when a model file is
\* missing
RapidCreateEngine ==
    /\ rapid_pc = "create_engine"
    /\ IF rapid_files.det /\ rapid_files.rec /\ rapid_files.keys
       THEN /\ rapid_did' = [rapid_did EXCEPT !.engine = TRUE]
            /\ rapid_stdout' =
                  Append(rapid_stdout,
                         "Initializing RapidOCR with PP-OCRv5 models...")
            /\ rapid_pc' = "convert"
            /\ UNCHANGED rapid_exit
       ELSE /\ rapid_stdout' =
                  rapid_stdout \o <<"Initializing RapidOCR with PP-OCRv5 models...",
                                    "Error">>
            /\ rapid_exit' = 1
            /\ rapid_pc' = "exit"
            /\ UNCHANGED rapid_did
    /\ UNCHANGED <<rapid_argv, rapid_files>>
    /\ UNCHANGED outside_rapid

\* convert_pdf or convert_image writes the output file; an exception exits 1
RapidConvert ==
    /\ rapid_pc = "convert"
    /\ \E converts \in BOOLEAN :
          IF converts
          THEN /\ rapid_did' = [rapid_did EXCEPT !.output = TRUE]
               /\ rapid_stdout' =
                     rapid_stdout \o <<"Starting conversion",
                                       "Conversion complete">>
               /\ rapid_exit' = 0
          ELSE /\ rapid_stdout' =
                     rapid_stdout \o <<"Starting conversion", "Error">>
               /\ rapid_exit' = 1
               /\ UNCHANGED rapid_did
    /\ rapid_pc' = "exit"
    /\ UNCHANGED <<rapid_argv, rapid_files>>
    /\ UNCHANGED outside_rapid

InitRapid ==
    /\ rapid_pc = "main"
    /\ rapid_argv \in RapidCommandLines
    /\ rapid_files \in RapidFileStates
    /\ rapid_stdout = <<>>
    /\ rapid_did = NothingDone
    /\ rapid_exit = -1
    /\ PlacementAtRest /\ TempAtRest /\ V5AtRest /\ ScriptsAtRest("")

NextRapid ==
    \/ RapidCheckModels \/ RapidDownloadModels \/ RapidUsage
    \/ RapidInputMissing \/ RapidEnsureModels \/ RapidCreateEngine
    \/ RapidConvert

SpecRapid == InitRapid /\ [][NextRapid]_vars

(* ====== docling_convert.py, docling_v5_convert.py: main and cleanup ==== *)
\* the two scripts have the same download_models_if_needed and the same
\* main; convert_document makes and removes its temporary directory in the
\* same way.  SpecDocling runs one of them.
DoclingScripts == {"docling_convert.py", "docling_v5_convert.py"}

\* the command line: --download-models or a conversion
DoclingCommandLines == [download_models : BOOLEAN]

\* nothing made, created or written yet
NoEffects ==
    [engine |-> FALSE, convert |-> FALSE, output_dir |-> FALSE,
     output |-> FALSE, rmtree |-> FALSE]

\* how a block of code is left
Outcomes == {"returned", "raised", "exit"}

\* the body of "try:" in convert_document, in the order it runs
TrySteps == <<"copy2", "convert", "makedirs", "export">>

\* "if not os.path.exists(keys_path):" of download_models_if_needed: the YML
\* is downloaded and config.get('PostProcess', {}).get('character_dict', [])
\* written line by line; a YML without dictionary gives an empty keys file
DoclingFetchKeys(st) ==
    IF ~st.ok \/ st.files.keys THEN st
    ELSE LET d == HfHubDownload(st, "yml", "keys")
         IN  IF ~d.ok THEN d
             ELSE IF d.files.yml = "broken" THEN [d EXCEPT !.ok = FALSE]
             ELSE [d EXCEPT !.files.keys = TRUE, !.extracted = d.files.yml]

\* download_models_if_needed()
DownloadModelsIfNeeded(files) ==
    LET start == [ok |-> TRUE, files |-> files, fetched |-> <<>>,
                  extracted |-> "none"]
    IN  IF CheckModelsExist(files) THEN start
        ELSE DoclingFetchKeys(FetchModel(FetchModel(start, "det"), "rec"))

\* a finally clause whose shutil.rmtree is not guarded: its exception
\* replaces what the try block left
AfterFinallyUnguarded(pending, removed) ==
    IF removed THEN pending ELSE "rmtree error"

\* "finally: try: shutil.rmtree(temp_dir) except Exception: pass": the
\* function is left as the try block was left
AfterFinally(pending, removed) == pending

\* the downloads of a call of download_models_if_needed, put in the record
Downloaded(d) ==
    [docling EXCEPT !.files = d.files, !.fetched = d.fetched,
                    !.extracted = d.extracted]

\* "if args.download_models:" download, exit 0, or exit 1 on an exception
DoclingDownloadOnly ==
    /\ docling.pc = "main"
    /\ docling.argv.download_models
    /\ LET d == DownloadModelsIfNeeded(docling.files)
       IN  docling' = [Downloaded(d) EXCEPT !.pc = "exit",
                                            !.exit = IF d.ok THEN 0 ELSE 1]
    /\ UNCHANGED outside_docling

\* "if not os.path.exists(args.input_file):" exit 1
DoclingInputMissing ==
    /\ docling.pc = "main"
    /\ ~docling.argv.download_models
    /\ ~docling.files.input
    /\ docling' = [docling EXCEPT !.pc = "exit", !.exit = 1]
    /\ UNCHANGED outside_docling

\* a main that downloads and converts without looking for the input file
DoclingEnsureModelsUnchecked ==
    /\ docling.pc = "main"
    /\ ~docling.argv.download_models
    /\ LET d == DownloadModelsIfNeeded(docling.files)
       IN  docling' = IF d.ok
                      THEN [Downloaded(d) EXCEPT !.pc = "convert_document"]
                      ELSE [Downloaded(d) EXCEPT !.pc = "exit", !.exit = 1]
    /\ UNCHANGED outside_docling

\* "download_models_if_needed()" in the try block of main
DoclingEnsureModels ==
    /\ docling.pc = "main"
    /\ ~docling.argv.download_models
    /\ docling.files.input
    /\ LET d == DownloadModelsIfNeeded(docling.files)
       IN  docling' = IF d.ok
                      THEN [Downloaded(d) EXCEPT !.pc = "convert_document"]
                      ELSE [Downloaded(d) EXCEPT !.pc = "exit", !.exit = 1]
    /\ UNCHANGED outside_docling

\* convert_document up to the DocumentConverter: the imports, the options
\* with the paths of the models, the converter; an exception leaves the
\* function before a temporary directory is made
DoclingSetup ==
    /\ docling.pc = "convert_document"
    /\ \E raises \in BOOLEAN :
          docling' = IF raises
                     THEN [docling EXCEPT !.pc = "except", !.left = "raised"]
                     ELSE [docling EXCEPT !.pc = "mkdtemp",
                                          !.did.engine = TRUE]
    /\ UNCHANGED outside_docling

\* temp_dir = tempfile.mkdtemp(...), before "try:"
DoclingMkdtemp ==
    /\ docling.pc = "mkdtemp"
    /\ \E raises \in BOOLEAN :
          docling' = IF raises
                     THEN [docling EXCEPT !.pc = "except", !.left = "raised"]
                     ELSE [docling EXCEPT !.pc = "try", !.temp = "made",
                                          !.step = 1]
    /\ UNCHANGED outside_docling

\* one statement of the try block: it raises, or it is done and the next
\* one follows; after the last one "return True"
DoclingTry ==
    /\ docling.pc = "try"
    /\ \E raises \in BOOLEAN :
          LET s == TrySteps[docling.step]
              done == [docling EXCEPT
                          !.did.convert = @ \/ s = "convert",
                          !.did.output_dir = @ \/ s = "makedirs",
                          !.did.output = @ \/ s = "export"]
          IN  docling' =
                  IF raises
                  THEN [docling EXCEPT !.pc = "finally", !.pending = "raised"]
                  ELSE IF docling.step = Len(TrySteps)
                  THEN [done EXCEPT !.pc = "finally", !.pending = "returned"]
                  ELSE [done EXCEPT !.step = @ + 1]
    /\ UNCHANGED outside_docling

\* "finally:" shutil.rmtree(temp_dir) removes the directory or raises
DoclingFinally ==
    /\ docling.pc = "finally"
    /\ \E removed \in BOOLEAN :
          docling' = [docling EXCEPT
                         !.pc = "except",
                         !.did.rmtree = TRUE,
                         !.temp = IF removed THEN "removed" ELSE "kept",
                         !.left = AfterFinally(docling.pending, removed)]
    /\ UNCHANGED outside_docling

\* main after convert_document: "except Exception" exits 1, otherwise the
\* script ends with status 0
DoclingMainEnd ==
    /\ docling.pc = "except"
    /\ docling' = [docling EXCEPT
                      !.pc = "exit",
                      !.exit = IF docling.left = "returned" THEN 0 ELSE 1]
    /\ UNCHANGED outside_docling

InitDocling ==
    /\ docling \in
          [pc : {"main"}, script : DoclingScripts,
           argv : DoclingCommandLines, files : RapidFileStates,
           fetched : {<<>>}, extracted : {"none"}, temp : {"none"},
           step : {0}, pending : {"none"}, left : {"none"},
           did : {NoEffects}, exit : {-1}]
    /\ VariablesAtRest /\ ScriptsAtRest("docling")

NextDocling ==
    \/ DoclingDownloadOnly \/ DoclingInputMissing \/ DoclingEnsureModels
    \/ DoclingSetup \/ DoclingMkdtemp \/ DoclingTry \/ DoclingFinally
    \/ DoclingMainEnd

SpecDocling == InitDocling /\ [][NextDocling]_vars

(* ========================= paddle_convert.py: main ===================== *)
\* the command line and the files: --use_gpu, whether the input exists and
\* is a PDF, and whether the directory paddle_temp_<uuid> is there already
PaddleInputs ==
    [use_gpu : BOOLEAN, input : BOOLEAN, pdf : BOOLEAN, temp_exists : BOOLEAN]

\* the body of the inner "try:", for a PDF and for an image
PaddlePdfSteps == <<"import fitz", "pages", "write">>
PaddleImageSteps == <<"imread", "predict", "write">>
PaddleSteps(in) == IF in.pdf THEN PaddlePdfSteps ELSE PaddleImageSteps

\* the statements that end in sys.exit(1): "except ImportError" of the
\* import of fitz, and "if img is None"
PaddleExits == {"import fitz", "imread"}

\* "if not os.path.exists(input_path):" exit 1
PaddleInputMissing ==
    /\ paddle.pc = "main"
    /\ ~paddle.in.input
    /\ paddle' = [paddle EXCEPT !.pc = "exit", !.exit = 1]
    /\ UNCHANGED outside_paddle

\* table_engine = PPStructure(lang, device), with another attempt on the
\* CPU when the GPU was asked for and failed
PaddleEngine ==
    /\ paddle.pc = "main"
    /\ paddle.in.input
    /\ \E gpu_works, cpu_works \in BOOLEAN :
          LET made == IF paddle.in.use_gpu THEN gpu_works \/ cpu_works
                      ELSE cpu_works
          IN  paddle' = IF made
                        THEN [paddle EXCEPT !.pc = "makedirs",
                                            !.did.engine = TRUE]
                        ELSE [paddle EXCEPT !.pc = "except",
                                            !.left = "raised"]
    /\ UNCHANGED outside_paddle

\* "if not os.path.exists(temp_base_dir): os.makedirs(temp_base_dir)",
\* before the inner "try:"
PaddleMakedirs ==
    /\ paddle.pc = "makedirs"
    /\ \E raises \in BOOLEAN :
          paddle' =
              IF paddle.in.temp_exists
              THEN [paddle EXCEPT !.pc = "try", !.temp = "found", !.step = 1]
              ELSE IF raises
              THEN [paddle EXCEPT !.pc = "except", !.left = "raised"]
              ELSE [paddle EXCEPT !.pc = "try", !.temp = "made", !.step = 1]
    /\ UNCHANGED outside_paddle

\* one statement of the inner try block: it raises, it calls sys.exit(1),
\* or it is done and the next one follows
PaddleTry ==
    /\ paddle.pc = "try"
    /\ \E how \in Outcomes :
          LET s == PaddleSteps(paddle.in)[paddle.step]
              done == [paddle EXCEPT
                          !.did.convert = @ \/ s \in {"pages", "predict"},
                          !.did.output_dir = @ \/ s = "write",
                          !.did.output = @ \/ s = "write"]
          IN  /\ how = "exit" => s \in PaddleExits
              /\ paddle' =
                    IF how # "returned"
                    THEN [paddle EXCEPT !.pc = "finally", !.pending = how]
                    ELSE IF paddle.step = Len(PaddleSteps(paddle.in))
                    THEN [done EXCEPT !.pc = "finally",
                                      !.pending = "returned"]
                    ELSE [done EXCEPT !.step = @ + 1]
    /\ UNCHANGED outside_paddle

\* "finally: if os.path.exists(temp_base_dir): try: shutil.rmtree(...)
\* except: pass"
PaddleFinally ==
    /\ paddle.pc = "finally"
    /\ \E removed \in BOOLEAN :
          paddle' = [paddle EXCEPT
                        !.pc = "except",
                        !.did.rmtree = TRUE,
                        !.temp = IF removed THEN "removed" ELSE "kept",
                        !.left = AfterFinally(paddle.pending, removed)]
    /\ UNCHANGED outside_paddle

\* "except Exception: traceback.print_exc(); sys.exit(1)"; sys.exit(1) of
\* the try block passes through it
PaddleMainEnd ==
    /\ paddle.pc = "except"
    /\ paddle' = [paddle EXCEPT
                     !.pc = "exit",
                     !.exit = IF paddle.left = "returned" THEN 0 ELSE 1]
    /\ UNCHANGED outside_paddle

InitPaddle ==
    /\ paddle \in
          [pc : {"main"}, in : PaddleInputs, temp : {"none"}, step : {0},
           pending : {"none"}, left : {"none"}, did : {NoEffects},
           exit : {-1}]
    /\ VariablesAtRest /\ ScriptsAtRest("paddle")

NextPaddle ==
    \/ PaddleInputMissing \/ PaddleEngine \/ PaddleMakedirs \/ PaddleTry
    \/ PaddleFinally \/ PaddleMainEnd

(* ========================= docling_wrapper.py: main ==================== *)
\* the command line and the files: --export-images, whether the input exists
WrapperInputs == [export_images : BOOLEAN, input : BOOLEAN]

\* "if not input_path.exists():" exit 1
WrapperInputMissing ==
    /\ wrapper.pc = "main"
    /\ ~wrapper.in.input
    /\ wrapper' = [wrapper EXCEPT !.pc = "exit", !.exit = 1]
    /\ UNCHANGED outside_wrapper

\* the imports, DocumentConverter() and converter.convert(str(input_path));
\* "except ImportError" and "except Exception" both exit 1
WrapperConvert ==
    /\ wrapper.pc = "main"
    /\ wrapper.in.input
    /\ \E raises \in BOOLEAN :
          wrapper' = IF raises
                     THEN [wrapper EXCEPT !.pc = "exit", !.exit = 1]
                     ELSE [wrapper EXCEPT !.pc = "write",
                                          !.did.engine = TRUE,
                                          !.did.convert = TRUE]
    /\ UNCHANGED outside_wrapper

\* output_path.parent.mkdir, the export, the images and the output file
WrapperWrite ==
    /\ wrapper.pc = "write"
    /\ \E raises \in BOOLEAN :
          wrapper' = IF raises
                     THEN [wrapper EXCEPT !.pc = "exit", !.exit = 1,
                                          !.did.output_dir = TRUE]
                     ELSE [wrapper EXCEPT !.pc = "exit", !.exit = 0,
                                          !.did.output_dir = TRUE,
                                          !.did.output = TRUE]
    /\ UNCHANGED outside_wrapper

InitWrapper ==
    /\ wrapper \in [pc : {"main"}, in : WrapperInputs, did : {NoEffects},
                    exit : {-1}]
    /\ VariablesAtRest /\ ScriptsAtRest("wrapper")

NextWrapper == WrapperInputMissing \/ WrapperConvert \/ WrapperWrite

(* ============ the wrapper scripts, one of them run at a time =========== *)
InitMains == InitDocling \/ InitRapid \/ InitPaddle \/ InitWrapper

NextMains == NextDocling \/ NextRapid \/ NextPaddle \/ NextWrapper

SpecMains == InitMains /\ [][NextMains]_vars

(* ========================== marker_convert.py ========================== *)
\* the command line and the files: --json, --use-gpu, whether the input
\* file is there, whether the document has images
MarkerInputs ==
    [json : BOOLEAN, use_gpu : BOOLEAN, input : BOOLEAN, images : BOOLEAN]

\* the body of the second "try:" of convert_with_marker, in the order it
\* runs
MarkerSteps ==
    <<"makedirs", "PdfConverter", "converter", "text_from_rendered",
      "write", "save images">>

\* what convert_with_marker and main put in result
NoResult == [success |-> FALSE, error |-> "none", output_path |-> "unset"]
Failure(message) ==
    [success |-> FALSE, error |-> message, output_path |-> "None"]
Success == [success |-> TRUE, error |-> "absent", output_path |-> "md"]

\* "if not os.path.isfile(args.input_file):" the failure is reported, exit 1
MarkerInputMissing ==
    /\ marker_convert.pc = "main"
    /\ ~marker_convert.in.input
    /\ marker_convert' = [marker_convert EXCEPT
                             !.pc = "exit",
                             !.result = Failure("Input file not found"),
                             !.exit = 1]
    /\ UNCHANGED outside_marker

\* the first "try:" of convert_with_marker: the imports of marker succeed,
\* raise ImportError, which is returned as a failure, or raise another
\* exception, which "except ImportError" does not catch
MarkerImport ==
    /\ marker_convert.pc = "main"
    /\ marker_convert.in.input
    /\ \E import \in {"imported", "ImportError", "other exception"} :
          marker_convert' =
              CASE import = "imported" ->
                     [marker_convert EXCEPT !.pc = "try", !.step = 1]
                [] import = "ImportError" ->
                     [marker_convert EXCEPT
                         !.pc = "returned",
                         !.result = Failure("Marker not installed")]
                [] import = "other exception" ->
                     [marker_convert EXCEPT !.pc = "raised",
                                            !.raised = TRUE]
    /\ UNCHANGED outside_marker

\* one statement of the second "try:": it raises and "except Exception"
\* returns the failure, or it is done; the images are saved only when there
\* are images; after the last statement the success is returned
MarkerTry ==
    /\ marker_convert.pc = "try"
    /\ \E raises \in BOOLEAN :
          LET s == MarkerSteps[marker_convert.step]
              skipped == s = "save images" /\ ~marker_convert.in.images
              done == [marker_convert EXCEPT
                          !.written = @ \/ s = "write"]
          IN  marker_convert' =
                  IF raises /\ ~skipped
                  THEN [marker_convert EXCEPT
                           !.pc = "returned",
                           !.result = Failure("str(e)")]
                  ELSE IF marker_convert.step = Len(MarkerSteps)
                  THEN [done EXCEPT !.pc = "returned", !.result = Success]
                  ELSE [done EXCEPT !.step = @ + 1]
    /\ UNCHANGED outside_marker

\* main prints the result and calls sys.exit(0 if result["success"] else 1)
MarkerReport ==
    /\ marker_convert.pc = "returned"
    /\ marker_convert' =
          [marker_convert EXCEPT
              !.pc = "exit",
              !.exit = IF marker_convert.result.success THEN 0 ELSE 1]
    /\ UNCHANGED outside_marker

\* an exception that leaves convert_with_marker leaves main as well: the
\* interpreter prints the traceback and ends with status 1
MarkerUncaught ==
    /\ marker_convert.pc = "raised"
    /\ marker_convert' = [marker_convert EXCEPT !.pc = "exit", !.exit = 1]
    /\ UNCHANGED outside_marker

InitMarker ==
    /\ marker_convert \in
          [pc : {"main"}, in : MarkerInputs, step : {0},
           result : {NoResult}, raised : {FALSE}, written : {FALSE},
           exit : {-1}]
    /\ VariablesAtRest /\ ScriptsAtRest("marker")

NextMarker ==
    \/ MarkerInputMissing \/ MarkerImport \/ MarkerTry \/ MarkerReport
    \/ MarkerUncaught

SpecMarker == InitMarker /\ [][NextMarker]_vars

(* ============================ run_tests.py ============================= *)
MaxTests == 3

\* what a selected test module does when it is loaded and its main() or
\* run() is called: it returns True, a falsy value that is not None, or
\* None, it has neither function, it raises an exception, or it calls
\* sys.exit
TestBehaviours ==
    {"returns True", "returns False", "returns None", "no main", "raises",
     "sys.exit"}

\* test_files: the paths given on the command line, or the glob of the
\* tests directory
RECURSIVE TestLists(_)
TestLists(n) ==
    IF n = 0 THEN { <<>> }
    ELSE TestLists(n - 1) \cup
         { Append(t, b) : t \in { u \in TestLists(n - 1) : Len(u) = n - 1 },
                          b \in TestBehaviours }

\* run_test(test_path): the success it returns, for a test that does not
\* call sys.exit: "result is None or result", False on an exception, True
\* when there is no main() and no run()
RunTest(b) ==
    CASE b = "returns True" -> TRUE
      [] b = "returns False" -> FALSE
      [] b = "returns None" -> TRUE
      [] b = "no main" -> TRUE
      [] b = "raises" -> FALSE

\* the line of the summary for one result
StatusLine(success) == IF success THEN "PASS" ELSE "FAIL"

\* sys.exit(0 if success else 1), success being what main() returned
ExitStatus(success) == IF success THEN 0 ELSE 1

\* "if not test_files: return": main returns None
RunnerNoTests ==
    /\ runner.pc = "main"
    /\ runner.tests = <<>>
    /\ runner' = [runner EXCEPT !.pc = "exit", !.exit = ExitStatus(FALSE)]
    /\ UNCHANGED outside_runner

\* "for test_path in test_files:" is entered
RunnerStart ==
    /\ runner.pc = "main"
    /\ runner.tests # <<>>
    /\ runner' = [runner EXCEPT !.pc = "run", !.next = 1]
    /\ UNCHANGED outside_runner

\* one turn of the loop: run_test and results.append; SystemExit is not
\* caught by "except Exception" and ends the runner with the test's status
RunnerRunTest ==
    /\ runner.pc = "run"
    /\ runner.next <= Len(runner.tests)
    /\ LET b == runner.tests[runner.next]
       IN  IF b = "sys.exit"
           THEN \E status \in {0, 1} :
                   runner' = [runner EXCEPT !.pc = "exit", !.exit = status]
           ELSE runner' = [runner EXCEPT
                              !.results = Append(@, RunTest(b)),
                              !.next = @ + 1]
    /\ UNCHANGED outside_runner

\* the summary and "return failed == 0", then sys.exit
RunnerSummary ==
    /\ runner.pc = "run"
    /\ runner.next > Len(runner.tests)
    /\ LET r == runner.results
       IN  runner' = [runner EXCEPT
                         !.pc = "exit",
                         !.summary = [k \in 1..Len(r) |-> StatusLine(r[k])],
                         !.exit = ExitStatus(\A k \in 1..Len(r) : r[k])]
    /\ UNCHANGED outside_runner

InitRunner ==
    /\ runner \in [pc : {"main"}, tests : TestLists(MaxTests), next : {0},
                   results : {<<>>}, summary : {<<>>}, exit : {-1}]
    /\ VariablesAtRest /\ ScriptsAtRest("runner")

NextRunner ==
    RunnerNoTests \/ RunnerStart \/ RunnerRunTest \/ RunnerSummary

SpecRunner == InitRunner /\ [][NextRunner]_vars

(* ===================== test_config.py: venv paths ====================== *)
\* names are sequences of characters, paths sequences of names
Markitdown == <<"m", "a", "r", "k", "i", "t", "d", "o", "w", "n">>
Docling == <<"d", "o", "c", "l", "i", "n", "g">>
Paddle == <<"p", "a", "d", "d", "l", "e">>
Paddleocr == Paddle \o <<"o", "c", "r">>
VenvPrefix == <<".", "v", "e", "n", "v", "_">>
TestWord == <<"t", "e", "s", "t", "_">>

\* the engine names asked for: the three engines, the alias, names in
\* capitals, names of no engine, the empty name
EngineNames ==
    { Markitdown, Docling, Paddle, Paddleocr,
      <<"D", "o", "c", "l", "i", "n", "g">>,
      <<"P", "A", "D", "D", "L", "E", "O", "C", "R">>,
      <<"m", "a", "r", "k", "e", "r">>,
      TestWord \o Docling,
      <<>> }

\* sys.platform
Platforms == {"win32", "linux"}

\* the values LOCALAPPDATA can have
AppDataDirs == { <<<<"C", ":">>, <<"L">>>>, <<<<"h">>>> }

\* str.lower() on the letters that occur
LowerChar(c) ==
    CASE c = "A" -> "a" [] c = "C" -> "c" [] c = "D" -> "d"
      [] c = "E" -> "e" [] c = "L" -> "l" [] c = "O" -> "o"
      [] c = "P" -> "p" [] c = "R" -> "r" [] OTHER -> c
Lower(s) == [k \in 1..Len(s) |-> LowerChar(s[k])]

\* BASE_APP_DIR = Path(LOCALAPPDATA) / "MarkBridge"
BaseAppDir(appdata) ==
    Append(appdata, <<"M", "a", "r", "k", "B", "r", "i", "d", "g", "e">>)

\* MARKITDOWN_VENV, DOCLING_VENV, PADDLE_VENV
ProductionVenvOf(base, name) == Append(base, VenvPrefix \o name)

\* TEST_VENV_MARKITDOWN, TEST_VENV_DOCLING, TEST_VENV_PADDLE
TestVenvOf(base, name) == Append(base, VenvPrefix \o TestWord \o name)

\* get_production_venv(engine)
GetProductionVenv(base, engine) ==
    LET e == Lower(engine)
    IN  IF e = Markitdown THEN ProductionVenvOf(base, Markitdown)
        ELSE IF e = Docling THEN ProductionVenvOf(base, Docling)
        ELSE IF e \in {Paddle, Paddleocr} THEN ProductionVenvOf(base, Paddle)
        ELSE ProductionVenvOf(base, Docling)

\* a get_test_venv that hands out the production environment
GetTestVenvShared(base, engine) == GetProductionVenv(base, engine)

\* get_test_venv(engine)
GetTestVenv(base, engine) ==
    LET e == Lower(engine)
    IN  IF e = Markitdown THEN TestVenvOf(base, Markitdown)
        ELSE IF e = Docling THEN TestVenvOf(base, Docling)
        ELSE IF e \in {Paddle, Paddleocr} THEN TestVenvOf(base, Paddle)
        ELSE TestVenvOf(base, Docling)

\* venv / "Scripts" / "python.exe" on win32, venv / "bin" / "python" elsewhere
PythonIn(venv, platform) ==
    IF platform = "win32"
    THEN venv \o <<<<"S", "c", "r", "i", "p", "t", "s">>,
                   <<"p", "y", "t", "h", "o", "n", ".", "e", "x", "e">>>>
    ELSE venv \o <<<<"b", "i", "n">>, <<"p", "y", "t", "h", "o", "n">>>>

\* get_test_python(engine)
GetTestPython(base, engine, platform) ==
    PythonIn(GetTestVenv(base, engine), platform)

\* get_production_python(engine)
GetProductionPython(base, engine, platform) ==
    PythonIn(GetProductionVenv(base, engine), platform)

NoPath == <<>>

\* a test asks for the test environment of an engine
CallTest ==
    /\ venvs.pc = "import"
    /\ venvs.test_venv = NoPath
    /\ LET base == BaseAppDir(venvs.appdata)
       IN  venvs' = [venvs EXCEPT
                        !.test_venv = GetTestVenv(base, venvs.test_engine),
                        !.test_python =
                            GetTestPython(base, venvs.test_engine,
                                          venvs.platform)]
    /\ UNCHANGED outside_venvs

\* a test asks for the production environment of an engine
CallProduction ==
    /\ venvs.pc = "import"
    /\ venvs.production_venv = NoPath
    /\ LET base == BaseAppDir(venvs.appdata)
       IN  venvs' = [venvs EXCEPT
                        !.production_venv =
                            GetProductionVenv(base, venvs.production_engine),
                        !.production_python =
                            GetProductionPython(base, venvs.production_engine,
                                                venvs.platform)]
    /\ UNCHANGED outside_venvs

InitVenvs ==
    /\ venvs \in [pc : {"import"}, platform : Platforms,
                  appdata : AppDataDirs,
                  test_engine : EngineNames, production_engine : EngineNames,
                  test_venv : {NoPath}, test_python : {NoPath},
                  production_venv : {NoPath}, production_python : {NoPath}]
    /\ VariablesAtRest /\ ScriptsAtRest("venvs")

NextVenvs == CallTest \/ CallProduction

SpecVenvs == InitVenvs /\ [][NextVenvs]_vars

(* ============== docling_wrapper.py: make_paths_relative ================ *)
MaxParts == 3

\* the pieces contents are made of: references to an image that exists
\* under the directory of the Markdown file (its name has a space), to one
\* that does not exist, to one that exists elsewhere, a reference with a
\* relative target, text, a line end, and the tail of a reference
RefInside ==
    <<"!", "[", "a", "]", "(", "C", ":", "\\", "o", "\\", "i", " ",
      "j", ")">>
RefMissing ==
    <<"!", "[", "a", "]", "(", "C", ":", "\\", "o", "\\", "m", ")">>
RefElsewhere ==
    <<"!", "[", "a", "]", "(", "C", ":", "\\", "x", ")">>
RefRelative ==
    <<"!", "[", "a", "]", "(", "r", ")">>
RefTail ==
    <<"]", "(", "C", ":", "\\", "o", "\\", "i", " ", "j", ")">>
Pieces ==
    { RefInside, RefMissing, RefElsewhere, RefRelative, RefTail, <<"t">>,
      <<NL>> }

RECURSIVE Contents(_)
Contents(n) ==
    IF n = 0 THEN { <<>> }
    ELSE Contents(n - 1) \cup
         { c \o p : c \in Contents(n - 1), p \in Pieces }

\* Path(...).parts on Windows: the path cut at the backslashes
RECURSIVE PathParts(_)
PathParts(s) ==
    IF \A k \in 1..Len(s) : s[k] # BS THEN << s >>
    ELSE LET k == CHOOSE j \in 1..Len(s) :
                     s[j] = BS /\ \A h \in 1..(j - 1) : s[h] # BS
         IN  << SubSeq(s, 1, k - 1) >> \o PathParts(SubSeq(s, k + 1, Len(s)))

\* md_path.parent, and the files that exist
MdParent == << <<"C", ":">>, <<"o">> >>
ExistingFiles ==
    { << <<"C", ":">>, <<"o">>, <<"i", " ", "j">> >>,
      << <<"C", ":">>, <<"x">> >> }

\* urllib.parse.quote on the characters that occur
QuotedChar(c) ==
    CASE c = " " -> <<"%", "2", "0">>
      [] c = ":" -> <<"%", "3", "A">>
      [] c = BS -> <<"%", "5", "C">>
      [] OTHER -> <<c>>
RECURSIVE Quote(_)
Quote(s) == IF s = <<>> THEN <<>> ELSE QuotedChar(s[1]) \o Quote(Tail(s))

\* "/".join(parts)
RECURSIVE JoinSlash(_)
JoinSlash(parts) ==
    IF Len(parts) = 1 THEN parts[1]
    ELSE parts[1] \o <<"/">> \o JoinSlash(Tail(parts))

\* abs_path_obj.relative_to(md_path.parent) does not raise ValueError
IsUnder(parts, parent) ==
    Len(parts) > Len(parent) /\ SubSeq(parts, 1, Len(parent)) = parent

\* the letters of [A-Za-z] that occur
DriveLetters == {"C", "a", "e", "g", "i", "j", "m", "o", "r", "t", "x"}

\* ([A-Za-z]:\\[^)]+)\) tried at position t: the position of the closing
\* parenthesis, 0 when there is no match
TargetEnd(s, t) ==
    IF /\ t + 3 <= Len(s)
       /\ s[t] \in DriveLetters /\ s[t + 1] = ":" /\ s[t + 2] = BS
       /\ s[t + 3] # ")"
       /\ \E c \in (t + 4)..Len(s) : s[c] = ")"
    THEN CHOOSE c \in (t + 4)..Len(s) :
             s[c] = ")" /\ \A h \in (t + 4)..(c - 1) : s[h] # ")"
    ELSE 0

\* the positions of "](" at which the pattern, begun with "![" at p, can go
\* on: .*? has matched the characters between, none of them a line end
Closings(s, p) ==
    { j \in (p + 2)..(Len(s) - 1) :
        /\ s[j] = "]" /\ s[j + 1] = "("
        /\ \A h \in (p + 2)..(j - 1) : s[h] # NL
        /\ TargetEnd(s, j + 2) > 0 }

\* the pattern !\[.*?\]\(([A-Za-z]:\\[^)]+)\) matched at p: .*? takes as
\* little as it can
PatternMatches(s, p) ==
    p + 1 <= Len(s) /\ s[p] = "!" /\ s[p + 1] = "[" /\ Closings(s, p) # {}
ClosingOf(s, p) ==
    CHOOSE j \in Closings(s, p) : \A h \in Closings(s, p) : j <= h

\* replace_path(match) for the match at p: ![image](<relative path>) when
\* the path exists and lies under md_path.parent, match.group(0) otherwise
ReplacePath(s, p) ==
    LET j == ClosingOf(s, p)
        e == TargetEnd(s, j + 2)
        parts == PathParts(SubSeq(s, j + 2, e - 1))
    IN  IF parts \in ExistingFiles /\ IsUnder(parts, MdParent)
        THEN <<"!", "[", "i", "m", "a", "g", "e", "]", "(">>
             \o JoinSlash([k \in 1..(Len(parts) - Len(MdParent)) |->
                              Quote(parts[Len(MdParent) + k])])
             \o <<")">>
        ELSE SubSeq(s, p, e)

\* re.sub(pattern, replace_path, md_content) from position p on: matches
\* are taken from left to right and do not overlap
RECURSIVE ReSub(_, _)
ReSub(s, p) ==
    IF p > Len(s) THEN <<>>
    ELSE IF PatternMatches(s, p)
    THEN ReplacePath(s, p)
         \o ReSub(s, TargetEnd(s, ClosingOf(s, p) + 2) + 1)
    ELSE <<s[p]>> \o ReSub(s, p + 1)

\* make_paths_relative(md_content, md_path, images_dir)
MakePathsRelative(md_content, images_dir_exists) ==
    IF ~images_dir_exists THEN md_content ELSE ReSub(md_content, 1)

NotCalled == <<"not called">>

\* md_content = make_paths_relative(md_content, output_path, images_dir)
RelpathsCall ==
    /\ relpaths.pc = "export"
    /\ relpaths' = [relpaths EXCEPT
                       !.pc = "write",
                       !.once = MakePathsRelative(relpaths.md_content,
                                                  relpaths.images_dir)]
    /\ UNCHANGED outside_relpaths

\* the function applied to its own result
RelpathsCallAgain ==
    /\ relpaths.pc = "write"
    /\ relpaths' = [relpaths EXCEPT
                       !.pc = "done",
                       !.twice = MakePathsRelative(relpaths.once,
                                                   relpaths.images_dir)]
    /\ UNCHANGED outside_relpaths

InitRelpaths ==
    /\ relpaths \in [pc : {"export"}, md_content : Contents(MaxParts),
                     images_dir : BOOLEAN, once : {NotCalled},
                     twice : {NotCalled}]
    /\ VariablesAtRest /\ ScriptsAtRest("relpaths")

NextRelpaths == RelpathsCall \/ RelpathsCallAgain

SpecRelpaths == InitRelpaths /\ [][NextRelpaths]_vars

(* ===================== properties of the placement ==================== *)
OrigLines == SplitNL(content)
OutLines == SplitNL(output)
SavedIndices == 0..(Len(tables_saved) - 1)

\* the table (index in result.document.tables) whose image is tables_saved[k]
OrigIndex(k) ==
    CHOOSE t \in 0..(Len(tables) - 1) :
        /\ tables[t + 1].image
        /\ Cardinality({u \in 0..(t - 1) : tables[u + 1].image}) = k

\* the marker derived for the table whose image is tables_saved[k]
TableMarker(k) == table_contexts[OrigIndex(k)]

\* the reference strategy 1, 2 or 3 writes for tables_saved[k]
RefOf(k) == ImageRef(k + 1, tables_saved[k + 1])

Occurrences(s, p) == { k \in 1..Len(s) : MatchAt(s, p, k) }

\* a well-formed image reference ![alt](target) starts at position k of s
RefEnd(s, k) ==
    { e \in (k + 4)..Len(s) :
        /\ s[e] = ")"
        /\ \E m \in (k + 2)..(e - 2) :
              /\ s[m] = "]" /\ s[m + 1] = "("
              /\ \A j \in (k + 2)..(m - 1) : s[j] \notin {"[", "]", NL}
              /\ \A j \in (m + 2)..(e - 1) : s[j] \notin {"(", ")", " ", NL} }

WellFormedRefAt(s, k) ==
    /\ k + 1 <= Len(s) /\ s[k] = "!" /\ s[k + 1] = "["
    /\ RefEnd(s, k) # {}

\* the references of s whose target is path
RefsTo(s, path) ==
    { k \in 1..Len(s) :
        /\ WellFormedRefAt(s, k)
        /\ MatchAt(s, <<"]", "(">> \o path \o <<")">>,
                   (CHOOSE e \in RefEnd(s, k) : TRUE) - Len(path) - 2) }

RECURSIVE IsSubsequence(_, _)
IsSubsequence(a, b) ==
    IF Len(a) = 0 THEN TRUE
    ELSE IF Len(b) = 0 THEN FALSE
    ELSE IF a[1] = b[1] THEN IsSubsequence(Tail(a), Tail(b))
    ELSE IsSubsequence(a, Tail(b))

\* C1 (count invariant): when every table has an image, the written content
\* holds exactly one well-formed image reference per table, and each saved
\* path is the target of exactly one of them.
C1_CountInvariant ==
    (pc = "done" /\ \A t \in 1..Len(tables) : tables[t].image) =>
        /\ Cardinality({k \in 1..Len(output) : WellFormedRefAt(output, k)})
              = Len(tables)
        /\ \A k \in SavedIndices :
              Cardinality(RefsTo(output, tables_saved[k + 1])) = 1

\* C2 (order preservation): every line of the exported document is a line of
\* the written content, unchanged and in the same relative order.
C2_OrderPreservation ==
    pc = "done" => IsSubsequence(OrigLines, OutLines)

\* C3 (no double placement): two tables with the same marker are not both
\* anchored by strategy 1 when the document holds that marker only once.
C3_NoDoublePlacement ==
    pc = "done" =>
        \A a, b \in SavedIndices :
            (/\ a < b
             /\ Len(TableMarker(a)) > 0
             /\ TableMarker(a) = TableMarker(b)
             /\ Cardinality(Occurrences(content, TableMarker(a))) = 1)
            => ~(placed_tier[a] = 1 /\ placed_tier[b] = 1)

\* the line of the document in which position k lies
LineOfPosition(s, k) ==
    Cardinality({j \in 1..(k - 1) : s[j] = NL}) + 1

\* C4 (context-anchor precision): a table whose marker occurs in the document
\* has its reference on a line of its own, then a blank line, then the
\* unchanged line that holds the first occurrence of the marker.
C4_ContextAnchorPrecision ==
    pc = "done" =>
        \A k \in SavedIndices :
            (Len(TableMarker(k)) > 0 /\ Find(content, TableMarker(k)) > 0) =>
                \E j \in 1..(Len(OutLines) - 2) :
                    /\ OutLines[j] = RefOf(k)
                    /\ OutLines[j + 1] = <<>>
                    /\ OutLines[j + 2] =
                         OrigLines[LineOfPosition(content,
                                       Find(content, TableMarker(k)))]

\* C5 (literal-table-block placement): the reference of a table placed by
\* strategy 2 stands directly after the last line of a table block: a table
\* line, a blank line, the image line.
C5_AfterTableBlock ==
    pc = "done" =>
        \A k \in SavedIndices :
            placed_tier[k] = 2 =>
                \E j \in 3..Len(OutLines) :
                    /\ OutLines[j] = RefOf(k)
                    /\ OutLines[j - 1] = <<>>
                    /\ IsTableLine(OutLines[j - 2])

\* the indices left for strategy 3: those strategies 1 and 2 did not insert
Unplaced12 == { k \in SavedIndices : k \notin inserted_indices }

\* C6 (exhaustive fallback): the images strategies 1 and 2 did not place are
\* the last lines of the written content, in ascending index order, under
\* one "## Table Images" heading; without such an image there is no heading.
C6_ExhaustiveFallback ==
    pc = "done" =>
        LET out == OutLines
            left == Unplaced12
            n == Len(out)
            c == Cardinality(left)
        IN  IF c = 0
            THEN \A j \in 1..n : out[j] # TrailerHeading
            ELSE /\ n >= c + 4
                 /\ \A k \in left :
                       out[n - c + 1 + Cardinality({r \in left : r < k})]
                           = RefOf(k)
                 /\ out[n - c] = <<>>
                 /\ out[n - c - 1] = TrailerHeading
                 /\ out[n - c - 2] = <<>>
                 /\ Cardinality({j \in 1..n : out[j] = TrailerHeading}) = 1

C6_Witness ==
    /\ pc = "done"
    /\ Cardinality(Unplaced12) = 2
    /\ Len(content) > 0

\* C7 (identity under no tables): with no table, or no table with an image,
\* the written content is the exported document; and the image path of a
\* table without an image occurs nowhere in the written content.
C7_IdentityNoTables ==
    pc = "done" =>
        /\ (\A t \in 1..Len(tables) : ~tables[t].image) => output = content
        /\ \A t \in 1..Len(tables) :
              ~tables[t].image =>
                  Occurrences(output, ImgName(output_basename, t - 1)) = {}

C7_Witness ==
    /\ pc = "done"
    /\ Len(tables) >= 2
    /\ \A t \in 1..Len(tables) : ~tables[t].image
    /\ \E j \in 1..Len(OrigLines) : IsTableLine(OrigLines[j])

\* C8 (never fails, total): the placement never raises, and at its end every
\* saved image has been placed by exactly one of the three strategies,
\* strategy 3 taking those the first two left.
C8_NeverFails ==
    /\ pc # "failed"
    /\ pc = "done" =>
          \A k \in SavedIndices :
              /\ placed_tier[k] \in {1, 2, 3}
              /\ placed_tier[k] = 3 <=> k \in Unplaced12

\* C9 (unmatched marker): a table without a marker, or whose marker occurs
\* nowhere in the exported document, is not placed by strategy 1 but by
\* strategy 2 or 3.
C9_UnmatchedMarker ==
    pc = "done" =>
        \A k \in SavedIndices :
            (Len(TableMarker(k)) = 0 \/ Find(content, TableMarker(k)) = 0)
                => placed_tier[k] \in {2, 3}

\* the blocks of table lines that a line which is no table line ends
InternalBlocks(ls) ==
    Cardinality({ j \in 1..(Len(ls) - 1) :
                    IsTableLine(ls[j]) /\ ~IsTableLine(ls[j + 1]) })

\* the images strategy 1 left to strategy 2
Unplaced1 == { k \in SavedIndices : placed_tier[k] # 1 }

\* the scanned text ends inside a table block and an image is left for it
EndsInBlockWithImageLeft ==
    /\ pc \in {"strategy3", "done"}
    /\ Unplaced1 # {}
    /\ IsTableLine(lines[Len(lines)])
    /\ Cardinality(Unplaced1) > InternalBlocks(lines)

\* C10 (end of document inside a table block): when the text strategy 2 scans
\* ends inside a table block, the next unplaced image is appended after the
\* block's last line (a blank line, then the image line), it counts as placed
\* by strategy 2, and the written content holds its reference once.
C10_EndOfDocumentBlock ==
    EndsInBlockWithImageLeft =>
        LET left == Unplaced1
            blocks == InternalBlocks(lines)
            k == CHOOSE u \in left : Cardinality({r \in left : r < u}) = blocks
            nl == SplitNL(new_content)
        IN  /\ placed_tier[k] = 2
            /\ pc = "strategy3" =>
                  /\ Len(nl) >= 3
                  /\ nl[Len(nl)] = RefOf(k)
                  /\ nl[Len(nl) - 1] = <<>>
                  /\ nl[Len(nl) - 2] = lines[Len(lines)]
            /\ pc = "done" => Cardinality(Occurrences(output, RefOf(k))) = 1

C10_Witness ==
    /\ EndsInBlockWithImageLeft
    /\ pc = "done"
    /\ InternalBlocks(lines) >= 1

\* lines a..b of ls form a contiguous pipe-table block: table lines with no
\* table line before or after them
IsBlock(ls, a, b) ==
    /\ a <= b
    /\ \A j \in a..b : IsTableLine(ls[j])
    /\ a = 1 \/ ~IsTableLine(ls[a - 1])
    /\ b = Len(ls) \/ ~IsTableLine(ls[b + 1])

\* lines a..b of ls stand in out as a contiguous run of the same lines
RunIn(out, ls, a, b) ==
    \E j \in 0..(Len(out) - (b - a + 1)) :
        \A m \in 0..(b - a) : out[j + 1 + m] = ls[a + m]

\* C11 (Markdown structure kept): every contiguous pipe-table block of the
\* exported document is a contiguous run of the same lines in the written
\* content; no reference or blank line is put inside a block or inside one of
\* its rows, also when a marker first occurs inside a table cell.
C11_TableBlocksIntact ==
    pc = "done" =>
        LET ls == OrigLines
            out == OutLines
        IN  \A a, b \in 1..Len(ls) :
                IsBlock(ls, a, b) => RunIn(out, ls, a, b)

\* the number the final message reports as inserted
ReportedInserted ==
    { m[2] : m \in { stdout[j] : j \in 1..Len(stdout) }
                   \cap { InsertedMsg(n) : n \in 0..Len(tables_saved) } }

\* C12 (placement report): the run reports how many insertions strategies 1
\* and 2 made, as against those that fell back to the trailer: the number it
\* reports as inserted is the number of images placed by strategy 1 or 2.
C12_ReportCountsTiers ==
    (pc = "done" /\ Len(tables_saved) > 0) =>
        ReportedInserted = { Cardinality(SavedIndices \ Unplaced12) }

\* urllib.parse.quote of one character of a relative path
QuoteChar(c) ==
    IF c = " " THEN <<"%", "2", "0">>
    ELSE IF c = BS THEN <<"%", "5", "C">>
    ELSE <<c>>

RECURSIVE UrlEscape(_)
UrlEscape(path) ==
    IF Len(path) = 0 THEN <<>>
    ELSE QuoteChar(path[1]) \o UrlEscape(Tail(path))

\* the path of the image of table t relative to the Markdown file
RelativeImagePath(t) == ImgName(output_basename, t)

\* C13 (reference targets): the target of the reference written for a table
\* image is the URL-escaped path of the image relative to the Markdown file.
C13_TargetsUrlEscaped ==
    pc = "done" =>
        \A k \in SavedIndices :
            Occurrences(output,
                <<"]", "(">> \o UrlEscape(RelativeImagePath(OrigIndex(k)))
                             \o <<")">>) # {}

\* the runs that hold a temporary directory
HoldingRuns == { r \in Runs : run_pc[r] \in {"copy", "convert", "finally"} }

\* C14 (no interference through working state): concurrent runs hold
\* distinct temporary directories; the directory of a run exists as long as
\* the run holds it and holds nothing but the run's own copy of its input,
\* whatever the other run creates or cleans up; and the file a run converts
\* is its own copy in its own directory.
C14_TempIsolation ==
    /\ \A r, q \in HoldingRuns : r # q => temp_dir[r] # temp_dir[q]
    /\ \A r \in HoldingRuns :
          /\ temp_dir[r] \in DOMAIN tmp_files
          /\ tmp_files[temp_dir[r]] \subseteq { CopyOf(input_path[r]) }
          /\ run_pc[r] = "convert" =>
                tmp_files[temp_dir[r]] = { CopyOf(input_path[r]) }
    /\ \A r \in Runs :
          /\ converted[r].status # "missing"
          /\ converted[r].status = "read" =>
                converted[r] = FileRead(temp_dir[r], CopyOf(input_path[r]))

\* one run has converted and cleaned up while the other, started on the
\* same input file, is still converting
C14_Witness ==
    /\ run_pc[1] = "convert"
    /\ run_pc[2] = "done"
    /\ converted[2].status = "read"
    /\ input_path[1] = input_path[2]

\* C15 (--no-ocr of docling_v5_convert.py): the script accepts --no-ocr,
\* and the do_ocr of its pipeline is "not --no-ocr": with --no-ocr OCR is off
\* and no RapidOCR options are attached, without it OCR is on with the
\* PP-OCRv5 RapidOCR options.
C15_NoOcrOption ==
    /\ (v5_argv.no_ocr /\ v5_pc # "parse_args") => v5_exit # 2
    /\ pipeline_options.configured =>
          /\ pipeline_options.do_ocr = ~v5_argv.no_ocr
          /\ pipeline_options.ocr_options =
                IF v5_argv.no_ocr THEN "none" ELSE "rapidocr_ppocrv5"

\* C16 (image modes of docling_v5_convert.py): the three modes are accepted,
\* and a run in referenced mode that converts writes the picture and table
\* images into an images directory and a Markdown that references them, not
\* the Markdown of placeholder mode.
C16_ReferencedMode ==
    /\ (v5_argv.image_mode \in ImageModes /\ ~v5_argv.no_ocr
            /\ v5_pc # "parse_args") => v5_exit # 2
    /\ (v5_pc = "exit" /\ v5_exit = 0 /\ ~v5_argv.download_models
            /\ v5_argv.image_mode = "referenced") =>
          /\ v5_written.images_dir
          /\ v5_written.markdown = "referenced"

\* C17 (--check-models of rapidocr_v5_convert.py): MODELS_INSTALLED and
\* status 0 exactly when the detection model, the recognition model and the
\* keys file all exist, MODELS_NOT_INSTALLED and status 1 otherwise; and
\* whatever else the command line holds, nothing is downloaded, no engine is
\* created and no output is written.
C17_CheckModels ==
    rapid_argv.check_models =>
        /\ rapid_pc \in {"main", "exit"}
        /\ rapid_did = NothingDone
        /\ rapid_pc = "exit" =>
              IF rapid_files.det /\ rapid_files.rec /\ rapid_files.keys
              THEN rapid_stdout = <<"MODELS_INSTALLED">> /\ rapid_exit = 0
              ELSE rapid_stdout = <<"MODELS_NOT_INSTALLED">> /\ rapid_exit = 1

\* --check-models together with --download-models and both file arguments,
\* the keys file alone missing, the repository reachable
C17_Witness ==
    /\ rapid_pc = "exit"
    /\ rapid_argv = [check_models |-> TRUE, download_models |-> TRUE,
                     input_file |-> TRUE, output_file |-> TRUE]
    /\ rapid_files.det /\ rapid_files.rec /\ ~rapid_files.keys
    /\ rapid_files.input /\ rapid_files.hub = HubFiles

\* the marker strategy 1 searches for the image tables_saved[k]
UsedMarker(k) ==
    LET table_ref == TableRefsMapGet(tables, tables_saved, k)
    IN  IF table_ref = -1 THEN <<>> ELSE table_contexts[table_ref]

\* C18 (marker-to-table association): strategy 1 anchors the image of each
\* table with the marker derived for that same table, whichever tables have
\* an image; an image whose own marker occurs in the document is anchored.
C18_OwnMarker ==
    pc = "done" =>
        \A k \in SavedIndices :
            /\ UsedMarker(k) = TableMarker(k)
            /\ (Len(TableMarker(k)) > 0 /\ Find(content, TableMarker(k)) > 0)
                  => placed_tier[k] = 1

\* C19 (search in the original text): a marker never matches inside text an
\* earlier placement inserted, so every reference strategy 1 inserted stands
\* whole in the written content.
C19_InsertedRefsWhole ==
    pc = "done" =>
        \A k \in SavedIndices :
            placed_tier[k] = 1 => Occurrences(output, RefOf(k)) # {}

\* the pipe-table blocks of the scanned lines
Blocks(ls) ==
    Cardinality({ j \in 1..Len(ls) :
                    /\ IsTableLine(ls[j])
                    /\ j = Len(ls) \/ ~IsTableLine(ls[j + 1]) })

\* the images strategy 2 placed
PlacedBy2 == { k \in SavedIndices : placed_tier[k] = 2 }

\* C20 (strategy 2 is monotone): after the scan, strategy 2 has given one
\* image to each block while images were left, always the lowest index not
\* yet placed; its references stand in ascending index order in the text,
\* and no image strategy 1 placed is inserted a second time.
C20_Tier2Monotone ==
    pc = "strategy3" =>
        LET left == Unplaced1
            by2 == PlacedBy2
            text == new_content
        IN  /\ Cardinality(by2) = Min(Blocks(lines), Cardinality(left))
            /\ \A k \in by2 : \A r \in left : r < k => r \in by2
            /\ \A a, b \in by2 :
                  a < b => /\ Find(text, RefOf(a)) > 0
                           /\ Find(text, RefOf(a)) < Find(text, RefOf(b))
            /\ \A k \in SavedIndices :
                  Cardinality(Occurrences(text, RefOf(k))) <= 1

C20_Witness ==
    /\ pc = "strategy3"
    /\ \E a, b \in SavedIndices :
          a < b /\ placed_tier[a] = 1 /\ placed_tier[b] = 2

\* the blocks of the scanned text that come before the one strategy 2 gave
\* the image k: strategy 2 hands out the blocks in order, one image each
BlockGivenTo(k) == Cardinality({ r \in PlacedBy2 : r < k })

\* C21 (strategy 2 does not count a block twice): when the document renders
\* every table as one block, so that block j is the rendering of table j,
\* and strategy 1 has left the number of blocks as it was, no image is
\* placed by strategy 2 at the block of another table that strategy 1 has
\* already anchored.
C21_NoBlockCountedTwice ==
    (/\ pc = "strategy3"
     /\ Blocks(OrigLines) = Len(tables)
     /\ Blocks(lines) = Len(tables)) =>
        \A k \in PlacedBy2 : \A a \in SavedIndices :
            placed_tier[a] = 1 => OrigIndex(a) # BlockGivenTo(k)

\* C22 (label and file agree): a reference to the file table_<i>.png of the
\* i-th table of the document, wherever it stands in the output, carries
\* the label Table i + 1.
C22_LabelMatchesFile ==
    pc = "done" =>
        \A k \in SavedIndices : \A n \in 1..Len(tables) :
            Occurrences(output, ImageRef(n, tables_saved[k + 1])) # {} =>
                n = OrigIndex(k) + 1

(* =================== properties of the wrapper scripts ================= *)
\* the scripts that make a temporary directory, as far as they are run
WithTempDir == { r \in {docling, paddle} : r.pc # "rest" }

\* C23 (cleanup on every path): when convert_document or the conversion of
\* paddle_convert.py has a temporary directory and control has left the
\* try block, however it left it, shutil.rmtree has been called on the
\* directory, and the function is left as the try block was left, also when
\* rmtree failed.
C23_CleanupOnEveryPath ==
    \A r \in WithTempDir :
        (r.pc \in {"except", "exit"} /\ r.temp # "none") =>
            /\ r.did.rmtree
            /\ r.temp \in {"removed", "kept"}
            /\ r.pending \in Outcomes
            /\ r.left = r.pending

C23_Witness ==
    /\ paddle.pc = "exit"
    /\ paddle.pending = "exit"
    /\ paddle.temp = "kept"
    /\ paddle.exit = 1

\* a call of hf_hub_download that failed, and a YML that was downloaded and
\* gave no character dictionary
DownloadFailed(fetched, files) ==
    \E k \in 1..Len(fetched) : fetched[k].file \notin files.hub
ExtractionFailed(fetched, files) ==
    /\ \E k \in 1..Len(fetched) : fetched[k].file = "yml"
    /\ "yml" \in files.hub
    /\ files.yml # "dict"

\* what C24 says of one script in conversion mode: position, files, calls
\* of hf_hub_download, engine created, output written, exit status
ModelsBeforeConversion(at, files, fetched, engine, written, status) ==
    /\ engine => files.det /\ files.rec /\ files.keys
    /\ \A k \in 1..Len(fetched) : ~fetched[k].present
    /\ (at = "exit" /\ (\/ DownloadFailed(fetched, files)
                        \/ ExtractionFailed(fetched, files))) =>
           status = 1 /\ ~engine /\ ~written

RapidConversionMode ==
    /\ rapid_pc # "rest"
    /\ ~rapid_argv.check_models /\ ~rapid_argv.download_models
    /\ rapid_argv.input_file /\ rapid_argv.output_file

DoclingConversionMode ==
    docling.pc # "rest" /\ ~docling.argv.download_models

\* C24 (models before conversion): in conversion mode of
\* rapidocr_v5_convert.py and of docling_convert.py the engine is created
\* only when the detection model, the recognition model and the keys file
\* exist, no file that exists is asked from the repository, and after a
\* failed download or a failed extraction of the dictionary the script has
\* exit status 1 and has neither created the engine nor written the output.
C24_ModelsBeforeConversion ==
    /\ RapidConversionMode =>
          ModelsBeforeConversion(rapid_pc, rapid_files, rapid_did.fetched,
                                 rapid_did.engine, rapid_did.output,
                                 rapid_exit)
    /\ DoclingConversionMode =>
          ModelsBeforeConversion(docling.pc, docling.files, docling.fetched,
                                 docling.did.engine, docling.did.output,
                                 docling.exit)

\* C25 (missing input is rejected first): in conversion mode with an input
\* file that does not exist, each of the four scripts does nothing but exit
\* with status 1: no download, no engine, no temporary or output directory,
\* no conversion, no output file.
C25_MissingInputFirst ==
    /\ (DoclingConversionMode /\ ~docling.files.input) =>
          /\ docling.pc \in {"main", "exit"}
          /\ docling.did = NoEffects /\ docling.fetched = <<>>
          /\ docling.temp = "none"
          /\ docling.pc = "exit" => docling.exit = 1
    /\ (RapidConversionMode /\ ~rapid_files.input) =>
          /\ rapid_pc \in {"main", "exit"}
          /\ rapid_did = NothingDone
          /\ rapid_pc = "exit" => rapid_exit = 1
    /\ (paddle.pc # "rest" /\ ~paddle.in.input) =>
          /\ paddle.pc \in {"main", "exit"}
          /\ paddle.did = NoEffects /\ paddle.temp = "none"
          /\ paddle.pc = "exit" => paddle.exit = 1
    /\ (wrapper.pc # "rest" /\ ~wrapper.in.input) =>
          /\ wrapper.pc \in {"main", "exit"}
          /\ wrapper.did = NoEffects
          /\ wrapper.pc = "exit" => wrapper.exit = 1

C25_Witness ==
    /\ docling.pc = "exit"
    /\ ~docling.argv.download_models
    /\ ~docling.files.input
    /\ ~docling.files.det /\ docling.files.hub = HubFiles
    /\ docling.exit = 1

\* C26 (convert_with_marker never raises): no exception leaves
\* convert_with_marker; a result that reports a failure has an error
\* message and output_path None, one that reports success has the path of
\* the Markdown file, which has been written; and marker_convert.py ends
\* with status 0 exactly when the result reports success.
C26_MarkerNeverRaises ==
    marker_convert.pc # "rest" =>
        /\ ~marker_convert.raised
        /\ marker_convert.pc \in {"returned", "exit"} =>
              IF marker_convert.result.success
              THEN /\ marker_convert.result.output_path = "md"
                   /\ marker_convert.written
              ELSE /\ marker_convert.result.error \notin {"none", "absent"}
                   /\ marker_convert.result.output_path = "None"
        /\ marker_convert.pc = "exit" =>
              (marker_convert.exit = 0 <=> marker_convert.result.success)

\* a test passes when it returns a truthy value
TestPassed(b) == b \in {"returns True", "no main"}

\* C27 (the test runner): when run_tests.py has ended, every selected test
\* has been run and has a result, failed when it returned a falsy value or
\* raised; the summary has one PASS or FAIL line for each test; and the
\* exit status is 0 exactly when every selected test passed.
C27_RunsAllTests ==
    runner.pc = "exit" =>
        LET n == Len(runner.tests)
        IN  /\ Len(runner.results) = n
            /\ \A k \in 1..n : runner.results[k] = TestPassed(runner.tests[k])
            /\ runner.summary =
                  [k \in 1..n |-> IF TestPassed(runner.tests[k])
                                  THEN "PASS" ELSE "FAIL"]
            /\ runner.exit = 0 <=> \A k \in 1..n : TestPassed(runner.tests[k])

\* the engine a name stands for: itself, paddle for the alias, docling for
\* a name of no engine, whatever the case of the letters
EngineOf(name) ==
    IF \E e \in {Markitdown, Docling, Paddle} : Len(e) = Len(name) /\
          \A k \in 1..Len(e) : LowerChar(name[k]) = e[k]
    THEN Lower(name)
    ELSE IF Lower(name) = Paddleocr THEN Paddle ELSE Docling

\* the path p lies in the directory called name of BASE_APP_DIR
UnderDir(p, name) ==
    /\ Len(p) > Len(venvs.appdata) + 1
    /\ SubSeq(p, 1, Len(venvs.appdata)) = venvs.appdata
    /\ p[Len(venvs.appdata) + 2] = name

\* C28 (test environments apart from production): the test venv and its
\* python lie under .venv_test_<engine>, the production venv and its python
\* under .venv_<engine>, <engine> being the engine the name stands for, and
\* no path given for a test environment is a path given for production,
\* whatever two names were asked for.
C28_TestVenvsIsolated ==
    /\ venvs.pc = "import" /\ venvs.test_venv # NoPath =>
          LET dir == VenvPrefix \o TestWord \o EngineOf(venvs.test_engine)
          IN  /\ UnderDir(venvs.test_venv, dir)
              /\ Len(venvs.test_venv) = Len(venvs.appdata) + 2
              /\ UnderDir(venvs.test_python, dir)
    /\ venvs.pc = "import" /\ venvs.production_venv # NoPath =>
          LET dir == VenvPrefix \o EngineOf(venvs.production_engine)
          IN  /\ UnderDir(venvs.production_venv, dir)
              /\ Len(venvs.production_venv) = Len(venvs.appdata) + 2
              /\ UnderDir(venvs.production_python, dir)
    /\ (/\ venvs.pc = "import"
        /\ venvs.test_venv # NoPath
        /\ venvs.production_venv # NoPath) =>
          {venvs.test_venv, venvs.test_python}
              \cap {venvs.production_venv, venvs.production_python} = {}

C28_Witness ==
    /\ venvs.pc = "import"
    /\ venvs.test_engine = Paddleocr
    /\ venvs.production_engine = TestWord \o Docling
    /\ venvs.test_venv # NoPath
    /\ venvs.production_venv # NoPath

\* the "](" that ends the text of the image reference beginning at p, when
\* its target is an absolute path; 0 when no such reference begins at p
RefClosing(s, p) ==
    IF /\ p + 1 <= Len(s) /\ s[p] = "!" /\ s[p + 1] = "["
       /\ \E j \in (p + 2)..(Len(s) - 1) :
             /\ s[j] = "]" /\ s[j + 1] = "("
             /\ \A h \in (p + 2)..(j - 1) : s[h] \notin {"]", NL}
             /\ TargetEnd(s, j + 2) > 0
    THEN CHOOSE j \in (p + 2)..(Len(s) - 1) :
             /\ s[j] = "]"
             /\ \A h \in (p + 2)..(j - 1) : s[h] \notin {"]", NL}
    ELSE 0

\* the content with the target of every reference to an existing file
\* under the directory of the Markdown file replaced by the URL-encoded
\* relative path, and nothing else changed
RECURSIVE TargetsRewritten(_, _)
TargetsRewritten(s, p) ==
    IF p > Len(s) THEN <<>>
    ELSE IF RefClosing(s, p) = 0
    THEN <<s[p]>> \o TargetsRewritten(s, p + 1)
    ELSE LET j == RefClosing(s, p)
             e == TargetEnd(s, j + 2)
             parts == PathParts(SubSeq(s, j + 2, e - 1))
         IN  (IF parts \in ExistingFiles /\ IsUnder(parts, MdParent)
              THEN SubSeq(s, p, j + 1)
                   \o JoinSlash([k \in 1..(Len(parts) - Len(MdParent)) |->
                                    Quote(parts[Len(MdParent) + k])])
                   \o <<")">>
              ELSE SubSeq(s, p, e))
             \o TargetsRewritten(s, e + 1)

\* C29 (make_paths_relative): the result is the content with nothing
\* changed but the targets of the references to existing files under the
\* directory of the Markdown file, which are the URL-encoded relative
\* paths; it is the content itself when the images directory does not
\* exist; and the function applied to its result gives the result again.
C29_OnlyTargetsRewritten ==
    /\ relpaths.pc \in {"write", "done"} =>
          relpaths.once =
              IF relpaths.images_dir
              THEN TargetsRewritten(relpaths.md_content, 1)
              ELSE relpaths.md_content
    /\ relpaths.pc = "done" => relpaths.twice = relpaths.once

====
